---- MODULE Spec2Model ----
(***************************************************************************)
(* State-machine model of the WhatsApp gateway rule engine                 *)
(* (engine/rule-engine.ts, clients/ha.ts, config.ts).                      *)
(*                                                                         *)
(* Strings that the code inspects character by character (message text,    *)
(* patterns, JIDs) are sequences of one-character strings.  Optional       *)
(* object fields are record fields that may be missing from the record's   *)
(* DOMAIN.  Every await of the code is a point where another invocation    *)
(* may run, so each asynchronous method is split into one action per       *)
(* await.                                                                  *)
(***************************************************************************)
EXTENDS Integers, Sequences, FiniteSets, TLC

\* ------------------------------------------------------------------ bounds
\* Largest value of the wall clock (seconds).
MaxTime == 2
\* Number of processMessage invocations that may be started in one run.
MaxCalls == 2
\* Number of saveRules / reloadRules invocations that may be started.
MaxAdminOps == 2

\* Slots for concurrently running processMessage invocations.
Procs == {"p1", "p2"}

\* The slots of the saveRules / reloadRules invocations.
Admins == {"a1", "a2"}

\* ----------------------------------------------------------- generic helpers
Has(r, f) == f \in DOMAIN r

Range(s) == {s[i] : i \in 1..Len(s)}

RECURSIVE SelectSeqOf(_, _)
\* Array.prototype.filter with the predicate given as the set of kept values.
SelectSeqOf(s, keep) ==
    IF s = <<>> THEN <<>>
    ELSE IF Head(s) \in keep THEN <<Head(s)>> \o SelectSeqOf(Tail(s), keep)
         ELSE SelectSeqOf(Tail(s), keep)

\* ------------------------------------------------------- text normalisation
\* String.prototype.toLowerCase on the model's alphabet.
LowerChar(c) ==
    CASE c = "A" -> "a"
      [] c = "B" -> "b"
      [] OTHER -> c

\* The characters matched by \s (and stripped by trim()) in the alphabet.
IsSpace(c) == c \in {" ", "\t", "\n"}

IsDigit(c) == c \in {"0", "1", "2", "3", "4", "5", "6", "7", "8", "9"}

ToLowerCase(t) == [i \in 1..Len(t) |-> LowerChar(t[i])]

RECURSIVE TrimStart(_)
TrimStart(t) ==
    IF t = <<>> THEN <<>>
    ELSE IF IsSpace(Head(t)) THEN TrimStart(Tail(t)) ELSE t

RECURSIVE TrimEnd(_)
TrimEnd(t) ==
    IF t = <<>> THEN <<>>
    ELSE IF IsSpace(t[Len(t)]) THEN TrimEnd(SubSeq(t, 1, Len(t) - 1)) ELSE t

Trim(t) == TrimEnd(TrimStart(t))

RECURSIVE CollapseSpaces(_)
\* replace(/\s+/g, ' '): every maximal run of whitespace becomes one space.
CollapseSpaces(t) ==
    IF t = <<>> THEN <<>>
    ELSE IF IsSpace(Head(t))
         THEN <<" ">> \o CollapseSpaces(TrimStart(Tail(t)))
         ELSE <<Head(t)>> \o CollapseSpaces(Tail(t))

normaliseText(text) == CollapseSpaces(Trim(ToLowerCase(text)))

RECURSIVE BeforeAt(_)
\* jidOrPhone.split('@')[0]
BeforeAt(s) ==
    IF s = <<>> THEN <<>>
    ELSE IF Head(s) = "@" THEN <<>> ELSE <<Head(s)>> \o BeforeAt(Tail(s))

RECURSIVE DigitsOnly(_)
\* replace(/[^0-9]/g, '')
DigitsOnly(s) ==
    IF s = <<>> THEN <<>>
    ELSE IF IsDigit(Head(s)) THEN <<Head(s)>> \o DigitsOnly(Tail(s))
         ELSE DigitsOnly(Tail(s))

extractPhoneNumber(jidOrPhone) == DigitsOnly(BeforeAt(jidOrPhone))

\* String.prototype.startsWith / includes
StartsWith(hay, needle) ==
    /\ Len(needle) <= Len(hay)
    /\ SubSeq(hay, 1, Len(needle)) = needle

Includes(hay, needle) ==
    \E k \in 0..Len(hay) :
        /\ k + Len(needle) <= Len(hay)
        /\ SubSeq(hay, k + 1, k + Len(needle)) = needle

\* Mutation: every pattern source compiles.
RegExpCompiles_Always(p) == p = p

\* new RegExp(p, 'i').  The pattern sources of the model are made of
\* letters, digits, white space and "[": a source compiles unless it holds
\* the unbalanced "[", a source that compiles is a literal, and the 'i'
\* flag makes the search case-insensitive.
RegExpCompiles(p) == "[" \notin Range(p)

\* new RegExp(p, 'i').test(text) for a source that compiles.
RegExpTest(p, text) == Includes(ToLowerCase(text), ToLowerCase(p))

\* --------------------------------------------------------------- matching
DefaultEvent == "MESSAGES_UPSERT"

\* Mutation: the default event is always among the rule's events.
RuleEvents_WithDefault(rule) ==
    IF Has(rule.match, "events")
    THEN rule.match.events \o <<DefaultEvent>> ELSE <<DefaultEvent>>

\* rule.match.events ?? ['MESSAGES_UPSERT']
RuleEvents(rule) ==
    IF Has(rule.match, "events") THEN rule.match.events ELSE <<DefaultEvent>>

\* message.event ?? 'MESSAGES_UPSERT'
IncomingEvent(message) ==
    IF Has(message, "event") THEN message.event ELSE DefaultEvent

\* 2. rule.match.chat?.type && rule.match.chat.type !== 'any'
ChatTypeConfigured(rule) ==
    /\ Has(rule.match, "chat")
    /\ Has(rule.match.chat, "type")
    /\ rule.match.chat.type # "any"

\* Mutation: an empty list of chat ids is a constraint.
ChatIdsConfigured_EmptyConstrains(rule) ==
    /\ Has(rule.match, "chat")
    /\ Has(rule.match.chat, "ids")

\* 3. rule.match.chat?.ids && rule.match.chat.ids.length > 0
ChatIdsConfigured(rule) ==
    /\ Has(rule.match, "chat")
    /\ Has(rule.match.chat, "ids")
    /\ Len(rule.match.chat.ids) > 0

\* 4a. rule.match.sender?.ids && rule.match.sender.ids.length > 0
SenderIdsConfigured(rule) ==
    /\ Has(rule.match, "sender")
    /\ Has(rule.match.sender, "ids")
    /\ Len(rule.match.sender.ids) > 0

\* Mutation: the numbers are looked at only when no sender ids are given.
SenderNumbersConfigured_OnlyWithoutIds(rule) ==
    /\ Has(rule.match, "sender")
    /\ Has(rule.match.sender, "numbers")
    /\ Len(rule.match.sender.numbers) > 0
    /\ ~ SenderIdsConfigured(rule)

\* 4b. rule.match.sender?.numbers && rule.match.sender.numbers.length > 0
SenderNumbersConfigured(rule) ==
    /\ Has(rule.match, "sender")
    /\ Has(rule.match.sender, "numbers")
    /\ Len(rule.match.sender.numbers) > 0

\* 5. rule.match.text && rule.match.text.patterns && patterns.length > 0
TextConfigured(rule) ==
    /\ Has(rule.match, "text")
    /\ Has(rule.match.text, "patterns")
    /\ Len(rule.match.text.patterns) > 0

\* rule.match.text.mode || 'contains'
TextMode(rule) ==
    IF Has(rule.match.text, "mode") THEN rule.match.text.mode ELSE "contains"

\* Mutation: the patterns of contains and starts_with are compared as
\* written.
TextMatched_RawPattern(rule, message) ==
    LET mode == TextMode(rule)
        patterns == rule.match.text.patterns
        normalisedMessage == normaliseText(message.text)
    IN  CASE mode = "contains" ->
               \E k \in 1..Len(patterns) :
                   Includes(normalisedMessage, patterns[k])
          [] mode = "starts_with" ->
               \E k \in 1..Len(patterns) :
                   StartsWith(normalisedMessage, patterns[k])
          [] mode = "regex" ->
               \E k \in 1..Len(patterns) :
                   /\ RegExpCompiles(patterns[k])
                   /\ RegExpTest(patterns[k], message.text)
          [] OTHER -> FALSE

\* The switch over the mode; patterns.some(...) is an OR over the patterns.
TextMatched(rule, message) ==
    LET mode == TextMode(rule)
        patterns == rule.match.text.patterns
        normalisedMessage == normaliseText(message.text)
    IN  CASE mode = "contains" ->
               \E k \in 1..Len(patterns) :
                   Includes(normalisedMessage, normaliseText(patterns[k]))
          [] mode = "starts_with" ->
               \E k \in 1..Len(patterns) :
                   StartsWith(normalisedMessage, normaliseText(patterns[k]))
          [] mode = "regex" ->
               \E k \in 1..Len(patterns) :
                   /\ RegExpCompiles(patterns[k])
                   /\ RegExpTest(patterns[k], message.text)
          [] OTHER -> FALSE

\* The reason is the list of trace fragments the code joins with ', ' on
\* success, or the single fragment of the first failing stage.
matchRule(rule, message) ==
    LET r1 == <<"event">>
        r2 == IF ChatTypeConfigured(rule) THEN r1 \o <<"chatType">> ELSE r1
        r3 == IF ChatIdsConfigured(rule) THEN r2 \o <<"chatId matched">> ELSE r2
        r4 == IF SenderIdsConfigured(rule) THEN r3 \o <<"senderId matched">> ELSE r3
        r5 == IF SenderNumbersConfigured(rule)
              THEN r4 \o <<"senderNumber matched">> ELSE r4
        r6 == IF TextConfigured(rule) THEN r5 \o <<"text matched">> ELSE r5
    IN  IF IncomingEvent(message) \notin Range(RuleEvents(rule))
        THEN [matches |-> FALSE, reason |-> <<"event not in list">>]
        ELSE IF ChatTypeConfigured(rule)
                /\ rule.match.chat.type # message.chatType
        THEN [matches |-> FALSE, reason |-> <<"chatType differs">>]
        ELSE IF ChatIdsConfigured(rule)
                /\ message.chatId \notin Range(rule.match.chat.ids)
        THEN [matches |-> FALSE, reason |-> <<"chatId not in allowed list">>]
        ELSE IF SenderIdsConfigured(rule)
                /\ message.senderId \notin Range(rule.match.sender.ids)
        THEN [matches |-> FALSE, reason |-> <<"senderId not in allowed list">>]
        ELSE IF SenderNumbersConfigured(rule)
                /\ ~ \E k \in 1..Len(rule.match.sender.numbers) :
                       extractPhoneNumber(rule.match.sender.numbers[k])
                           = extractPhoneNumber(message.senderId)
        THEN [matches |-> FALSE, reason |-> <<"senderPhone not in allowed list">>]
        ELSE IF TextConfigured(rule) /\ ~ TextMatched(rule, message)
        THEN [matches |-> FALSE, reason |-> <<"text did not match">>]
        ELSE [matches |-> TRUE, reason |-> r6]

\* ---------------------------------------------------------- working order
\* The sort key of the comparator (a.priority || 100): a missing priority
\* and the falsy priority 0 both count as 100.
SortKey(rule) ==
    IF Has(rule, "priority") /\ rule.priority # 0 THEN rule.priority ELSE 100

RECURSIVE InsertByKey(_, _)
\* Array.prototype.sort is stable: an element goes behind every element
\* whose key is not larger.
InsertByKey(sorted, rule) ==
    IF sorted = <<>> THEN <<rule>>
    ELSE IF SortKey(Head(sorted)) <= SortKey(rule)
         THEN <<Head(sorted)>> \o InsertByKey(Tail(sorted), rule)
         ELSE <<rule>> \o sorted

RECURSIVE SortByKey(_)
SortByKey(rules) ==
    IF rules = <<>> THEN <<>>
    ELSE InsertByKey(SortByKey(SubSeq(rules, 1, Len(rules) - 1)),
                     rules[Len(rules)])

\* Mutation: the working list keeps the disabled rules.
SortedRules_KeepDisabled(rules) == SortByKey(rules)

\* [...rules].filter(r => r.enabled).sort((a, b) => ...)
SortedRules(rules) ==
    SortByKey(SelectSeqOf(rules, {r \in Range(rules) : r.enabled}))

\* Mutation: a missing stop_on_match counts as false.
StopsChain_AbsentFalse(rule) ==
    Has(rule, "stop_on_match") /\ rule.stop_on_match = TRUE

\* rule.stop_on_match !== false
StopsChain(rule) == ~ (Has(rule, "stop_on_match") /\ rule.stop_on_match = FALSE)

\* Mutation: a cooldown of zero seconds is set as well.
HasCooldown_Present(rule) == Has(rule, "cooldown_seconds")

\* rule.cooldown_seconds && rule.cooldown_seconds > 0
HasCooldown(rule) == Has(rule, "cooldown_seconds") /\ rule.cooldown_seconds > 0

\* ------------------------------------------------------------ testMessage
RECURSIVE TestLoop_NoStop(_, _, _)
\* Mutation: the dry run goes on after a rule that stops the chain.
TestLoop_NoStop(sorted, message, acc) ==
    IF sorted = <<>> THEN acc
    ELSE LET rule == Head(sorted)
             matchResult == matchRule(rule, message)
             acc2 == [matchedRules |->
                          Append(acc.matchedRules,
                                 [id |-> rule.id, name |-> rule.name,
                                  reason |-> matchResult.reason]),
                      actionsPreview |->
                          acc.actionsPreview \o
                              [k \in 1..Len(rule.actions) |->
                                  [ruleId |-> rule.id,
                                   type |-> rule.actions[k].type]]]
         IN  TestLoop_NoStop(Tail(sorted), message,
                             IF matchResult.matches THEN acc2 ELSE acc)

RECURSIVE TestLoop(_, _, _)
\* The for-loop of testMessage over the sorted rules, with the accumulated
\* result acc = [matchedRules, actionsPreview].
TestLoop(sorted, message, acc) ==
    IF sorted = <<>> THEN acc
    ELSE LET rule == Head(sorted)
             matchResult == matchRule(rule, message)
             acc2 == [matchedRules |->
                          Append(acc.matchedRules,
                                 [id |-> rule.id, name |-> rule.name,
                                  reason |-> matchResult.reason]),
                      actionsPreview |->
                          acc.actionsPreview \o
                              [k \in 1..Len(rule.actions) |->
                                  [ruleId |-> rule.id,
                                   type |-> rule.actions[k].type]]]
         IN  IF matchResult.matches
             THEN IF StopsChain(rule) THEN acc2
                  ELSE TestLoop(Tail(sorted), message, acc2)
             ELSE TestLoop(Tail(sorted), message, acc)

EmptyTestResult == [matchedRules |-> <<>>, actionsPreview |-> <<>>]

\* cache is the value of this.rulesCache: NoCache (null) or a rule set.
NoCache == [null |-> TRUE]

CacheHasRules(cache) == Has(cache, "rules")

\* A parsed document holds its rules in the field rules when that value is
\* an array; a value of any other type is held in the field rulesOther as
\* [truthy, iterable], the two things the engine's code asks of it.
\* !this.rulesCache?.rules
RulesFalsy(cache) ==
    /\ ~ Has(cache, "rules")
    /\ ~ (Has(cache, "rulesOther") /\ cache.rulesOther.truthy)

\* [...this.rulesCache.rules] throws a TypeError on a value that is not
\* iterable; .filter(r => r.enabled) throws on a null entry.
BuildThrows(cache) ==
    \/ /\ Has(cache, "rulesOther")
       /\ cache.rulesOther.truthy
       /\ ~ cache.rulesOther.iterable
    \/ /\ Has(cache, "rules")
       /\ \E k \in 1..Len(cache.rules) : Has(cache.rules[k], "null")

\* rule.match.events throws a TypeError when the rule has no match block.
MatchRuleThrows(rule) == ~ Has(rule, "match")

testMessage(cache, message) ==
    IF ~ CacheHasRules(cache) THEN EmptyTestResult
    ELSE TestLoop(SortedRules(cache.rules), message, EmptyTestResult)

\* ------------------------------------------------------------- validation
\* yaml.load: a text either has a syntax error (load throws) or yields the
\* document it denotes.
YamlParses(text) == ~ text.syntaxError

YamlLoad(text) == text.doc

\* JSON.stringify / JSON.parse of the parsed rule set as stored in
\* wa_ruleset.parsed_json.
JsonStringify(doc) == [json |-> doc]

JsonParse(column) == column.json

\* row?.parsed_json is falsy for a NULL or empty column.
ColumnTruthy(column) == ~ Has(column, "empty")

\* JSON.parse throws a SyntaxError on text that is not JSON.
JsonParses(column) == Has(column, "json")

\* The rule set reloadRules falls back to.
EmptyRuleSet == [version |-> 1, rules |-> <<>>]

\* One entry of ValidationResult.errors; the message is kept as the parts
\* of its template.
Err(parts) == [message |-> parts]

RECURSIVE ActionErrors(_)
\* The schema's checks on one action list followed by the semantic checks
\* "ha_service action requires a service field" and "reply_whatsapp action
\* requires a text field" (!action.service, !action.text).
ActionErrors(actions) ==
    IF actions = <<>> THEN <<>>
    ELSE LET a == Head(actions)
             e1 == IF a.type \notin {"ha_service", "reply_whatsapp"}
                   THEN <<Err(<<"must be equal to one of the allowed values">>)>>
                   ELSE <<>>
             e2 == IF a.type = "ha_service"
                      /\ ~ (Has(a, "service") /\ a.service # "")
                   THEN <<Err(<<"ha_service action requires a service field">>)>>
                   ELSE <<>>
             e3 == IF a.type = "reply_whatsapp"
                      /\ ~ (Has(a, "text") /\ a.text # <<>>)
                   THEN <<Err(<<"reply_whatsapp action requires a text field">>)>>
                   ELSE <<>>
         IN  e1 \o e2 \o e3 \o ActionErrors(Tail(actions))

RECURSIVE RegexErrors(_)
RegexErrors(patterns) ==
    IF patterns = <<>> THEN <<>>
    ELSE (IF RegExpCompiles(Head(patterns)) THEN <<>>
          ELSE <<Err(<<"Invalid regex">>)>>)
         \o RegexErrors(Tail(patterns))

\* Schema violations of one rule: the entry's type, required fields,
\* minLength of id, minimum of cooldown_seconds, minItems of actions.
RuleSchemaErrors(rule) ==
    (IF Has(rule, "primitive") THEN <<Err(<<"must be object">>)>>
     ELSE IF \A f \in {"id", "name", "enabled", "match", "actions"} :
                 Has(rule, f)
     THEN <<>> ELSE <<Err(<<"must have required property">>)>>)
    \o (IF Has(rule, "id") /\ rule.id = ""
        THEN <<Err(<<"must NOT have fewer than 1 characters">>)>> ELSE <<>>)
    \o (IF Has(rule, "cooldown_seconds") /\ rule.cooldown_seconds < 0
        THEN <<Err(<<"must be >= 0">>)>> ELSE <<>>)
    \o (IF Has(rule, "actions") /\ rule.actions = <<>>
        THEN <<Err(<<"must NOT have fewer than 1 items">>)>> ELSE <<>>)

\* rule.id as the duplicate check reads it: a missing id reads as undefined.
RuleId(rule) == IF Has(rule, "id") THEN rule.id ELSE "undefined"

RECURSIVE RulesErrors_NoDupCheck(_, _)
\* Mutation: the loop does not look for an id it has seen before.
RulesErrors_NoDupCheck(rules, ids) ==
    IF rules = <<>> THEN <<>>
    ELSE LET rule == Head(rules)
             act == IF Has(rule, "actions") THEN ActionErrors(rule.actions)
                    ELSE <<>>
             rgx == IF /\ Has(rule, "match")
                       /\ Has(rule.match, "text")
                       /\ Has(rule.match.text, "mode")
                       /\ rule.match.text.mode = "regex"
                       /\ Has(rule.match.text, "patterns")
                    THEN RegexErrors(rule.match.text.patterns)
                    ELSE <<>>
         IN  RuleSchemaErrors(rule) \o act \o rgx
             \o RulesErrors_NoDupCheck(Tail(rules), ids)

RECURSIVE RulesErrors(_, _)
\* The loop over parsed.rules with the set of ids seen so far.
RulesErrors(rules, ids) ==
    IF rules = <<>> THEN <<>>
    ELSE LET rule == Head(rules)
             dup == IF RuleId(rule) \in ids
                    THEN <<Err(<<"Duplicate rule ID: ", RuleId(rule)>>)>>
                    ELSE <<>>
             act == IF Has(rule, "actions") THEN ActionErrors(rule.actions)
                    ELSE <<>>
             rgx == IF /\ Has(rule, "match")
                       /\ Has(rule.match, "text")
                       /\ Has(rule.match.text, "mode")
                       /\ rule.match.text.mode = "regex"
                       /\ Has(rule.match.text, "patterns")
                    THEN RegexErrors(rule.match.text.patterns)
                    ELSE <<>>
         IN  RuleSchemaErrors(rule) \o dup \o act \o rgx
             \o RulesErrors(Tail(rules), ids \cup {RuleId(rule)})

\* The semantic loop reads rule.id of every entry of parsed.rules and
\* action.type of every entry of rule.actions: a null entry is a TypeError.
ValidateThrows(parsed) ==
    /\ Has(parsed, "rules")
    /\ \E k \in 1..Len(parsed.rules) :
           \/ Has(parsed.rules[k], "null")
           \/ /\ Has(parsed.rules[k], "actions")
              /\ \E j \in 1..Len(parsed.rules[k].actions) :
                     Has(parsed.rules[k].actions[j], "null")

\* Schema violations of the document itself.
DocSchemaErrors(parsed) ==
    IF Has(parsed, "null") THEN <<Err(<<"must be object">>)>>
    ELSE (IF Has(parsed, "version") /\ (Has(parsed, "rules")
                                         \/ Has(parsed, "rulesOther"))
          THEN <<>> ELSE <<Err(<<"must have required property">>)>>)
         \o (IF Has(parsed, "version") /\ parsed.version # 1
             THEN <<Err(<<"must be equal to constant">>)>> ELSE <<>>)
         \o (IF Has(parsed, "rulesOther")
             THEN <<Err(<<"must be array">>)>> ELSE <<>>)

\* parsed?.rules?.length || 0
RuleCount(parsed) ==
    IF Has(parsed, "rules") THEN Len(parsed.rules)
    ELSE IF Has(parsed, "rulesOther") /\ Has(parsed.rulesOther, "length")
    THEN parsed.rulesOther.length
    ELSE 0

\* yaml.dump of the parsed document.
YamlDump(parsed) == [yaml |-> parsed]

\* The result of validateYaml, or [threw |-> TRUE] when it throws.
validateYaml(text) ==
    IF ~ YamlParses(text)
    THEN [valid |-> FALSE, errors |-> <<Err(<<"YAML syntax error">>)>>,
          ruleCount |-> 0]
    ELSE LET parsed == YamlLoad(text)
             errors == DocSchemaErrors(parsed)
                       \o (IF Has(parsed, "rules")
                           THEN RulesErrors(parsed.rules, {}) ELSE <<>>)
         IN  IF ValidateThrows(parsed) THEN [threw |-> TRUE]
             ELSE IF errors = <<>>
             THEN [valid |-> TRUE, errors |-> errors,
                   ruleCount |-> RuleCount(parsed),
                   normalizedYaml |-> YamlDump(parsed)]
             ELSE [valid |-> FALSE, errors |-> errors,
                   ruleCount |-> RuleCount(parsed)]

\* ------------------------------------------------------------------ inputs
\* Services named by actions, and the environment's HA_ALLOWED_SERVICES.
DefaultAllowedServices == <<"script.turn_on", "automation.trigger">>

\* (process.env.HA_ALLOWED_SERVICES || '<default>').split(',').map(trim):
\* env is the list of the variable's comma-separated fields, <<>> standing
\* for an unset or empty variable.
loadConfig(env) ==
    [allowedServices |-> IF env = <<>> THEN DefaultAllowedServices ELSE env]

\* The gateway is started without HA_ALLOWED_SERVICES.
config == loadConfig(<<>>)

ReplyOk == [type |-> "reply_whatsapp", text |-> <<"o", "k">>]
CallScript == [type |-> "ha_service", service |-> "script.turn_on"]
CallLight ==
    [type |-> "ha_service", service |-> "light.turn_on",
     target |-> [entity_id |-> "light.y"]]

\* Two rules at priorities 50 and 100 that match every message; the first
\* leaves stop_on_match at its default.
RulesStop ==
    << [id |-> "r2", name |-> "second", enabled |-> TRUE, priority |-> 100,
        stop_on_match |-> TRUE, match |-> <<>>, actions |-> <<CallScript>>],
       [id |-> "r1", name |-> "first", enabled |-> TRUE, priority |-> 50,
        match |-> <<>>, actions |-> <<ReplyOk, CallScript>>] >>

\* A rate-limited rule that lets the chain continue and whose first action
\* names a service outside the allowlist, then a rule without priority.
RulesChain ==
    << [id |-> "r1", name |-> "first", enabled |-> TRUE, priority |-> 50,
        stop_on_match |-> FALSE, cooldown_seconds |-> 1,
        match |-> [text |-> [mode |-> "contains", patterns |-> << <<"A">> >>]],
        actions |-> <<CallLight, ReplyOk>>],
       [id |-> "r2", name |-> "second", enabled |-> TRUE,
        stop_on_match |-> TRUE, cooldown_seconds |-> 0,
        match |-> <<>>, actions |-> <<CallScript>>] >>

\* A disabled rule with the smallest priority, a rule at priority 0 for a
\* text no message carries, a rule for texts starting with "b", and a
\* rate-limited catch-all behind it.
RulesGate ==
    << [id |-> "r4", name |-> "fourth", enabled |-> FALSE, priority |-> -1,
        cooldown_seconds |-> 1, match |-> <<>>, actions |-> <<CallLight>>],
       [id |-> "r3", name |-> "third", enabled |-> TRUE, priority |-> 0,
        match |-> [text |-> [mode |-> "regex", patterns |-> << <<"c">> >>]],
        actions |-> <<ReplyOk>>],
       [id |-> "r1", name |-> "first", enabled |-> TRUE, priority |-> 10,
        match |-> [text |-> [mode |-> "starts_with",
                             patterns |-> << <<"b">> >>]],
        actions |-> <<CallScript>>],
       [id |-> "r2", name |-> "second", enabled |-> TRUE, priority |-> 20,
        cooldown_seconds |-> 1, match |-> [chat |-> [type |-> "any"]],
        actions |-> <<ReplyOk>>] >>

\* Two rules sharing an id.
RulesDup ==
    << [id |-> "r1", name |-> "first", enabled |-> TRUE,
        match |-> <<>>, actions |-> <<ReplyOk>>],
       [id |-> "r1", name |-> "again", enabled |-> TRUE,
        match |-> <<>>, actions |-> <<ReplyOk>>] >>

Text(name, rules) ==
    [name |-> name, syntaxError |-> FALSE,
     doc |-> [version |-> 1, rules |-> rules]]

\* The source texts offered to saveRules.
YamlTexts ==
    { Text("stop", RulesStop), Text("chain", RulesChain),
      Text("gate", RulesGate),
      Text("dup", RulesDup),
      [name |-> "broken", syntaxError |-> TRUE] }

\* The row of wa_ruleset written by the migration.
SeedRuleset ==
    [yaml_text |-> "seed",
     parsed_json |-> JsonStringify([version |-> 1, rules |-> <<>>]),
     version |-> 1]

Sender == <<"3", "1", "@", "s">>

\* The incoming messages: two texts in chat x.
Messages ==
    { [chatId |-> "x", chatType |-> "direct", senderId |-> Sender,
       text |-> <<"a">>],
      [chatId |-> "x", chatType |-> "direct", senderId |-> Sender,
       text |-> <<"b">>] }

\* ------------------------------------------------------------------- state
VARIABLES
    rulesCache,   \* this.rulesCache: NoCache or a rule set
    ruleset,      \* the row of wa_ruleset: yaml_text, parsed_json, version
    cooldown,     \* the rows of wa_cooldown, unique per (rule_id, scope_key)
    fires,        \* the rows of wa_rule_fire in insertion order
    now,          \* the wall clock read by NOW(), in seconds
    call,         \* the processMessage invocations, one record per slot
    admin,        \* the saveRules / reloadRules invocations, per slot
    haCalls,      \* the POSTs made to the home-automation service API
    sendCalls,    \* the sendTextMessage calls made to the message sender
    testResult,   \* the result of the last testMessage call
    serviceResult,\* the result of the last callService call made by a route
    ncalls,       \* processMessage invocations started so far
    nadmin,       \* saveRules / reloadRules invocations started so far
    waMessage,    \* the rows of wa_message in insertion order
    webhook       \* the POST /webhook/evolution requests, one per slot

vars == <<rulesCache, ruleset, cooldown, fires, now, call, admin, haCalls,
          sendCalls, testResult, serviceResult, ncalls, nadmin, waMessage,
          webhook>>

NoMessage == [none |-> TRUE]

IdleCall ==
    [pc |-> "idle", callId |-> 0, message |-> NoMessage, sortedRules |-> <<>>,
     idx |-> 0, act |-> 0, actionResults |-> <<>>,
     evaluatedRules |-> <<>>, executedActions |-> <<>>,
     snapshot |-> NoCache, cdAtStart |-> {}, failed |-> "none"]

IdleAdmin == [pc |-> "idle"]

IdleWebhook == [pc |-> "idle"]

\* State after the constructor: no rule set cached, the store as migrated.
Init ==
    /\ rulesCache = NoCache
    /\ ruleset = SeedRuleset
    /\ cooldown = {}
    /\ fires = <<>>
    /\ now = 0
    /\ call = [p \in Procs |-> IdleCall]
    /\ admin = [a \in Admins |-> IdleAdmin]
    /\ haCalls = {}
    /\ sendCalls = {}
    /\ testResult = [none |-> TRUE]
    /\ serviceResult = [none |-> TRUE]
    /\ ncalls = 0
    /\ nadmin = 0
    /\ waMessage = <<>>
    /\ webhook = [p \in Procs |-> IdleWebhook]

\* ------------------------------------------------------------- rule set
\* reloadRules up to the await: the store answers the SELECT.
reloadRulesSelect(a) ==
    /\ admin[a].pc = "idle"
    /\ nadmin < MaxAdminOps
    /\ admin' = [admin EXCEPT ![a] = [pc |-> "reload", row |-> ruleset]]
    /\ nadmin' = nadmin + 1
    /\ UNCHANGED <<rulesCache, ruleset, cooldown, fires, now, call, haCalls,
                   sendCalls, testResult, ncalls, serviceResult,
                   waMessage, webhook>>

\* reloadRules after the await: the cache reference is replaced by the
\* parsed row.
reloadRulesAssign(a) ==
    /\ admin[a].pc = "reload"
    /\ rulesCache' =
           IF ColumnTruthy(admin[a].row.parsed_json)
                 /\ JsonParses(admin[a].row.parsed_json)
           THEN JsonParse(admin[a].row.parsed_json)
           ELSE EmptyRuleSet
    /\ admin' = [admin EXCEPT ![a] = IdleAdmin]
    /\ UNCHANGED <<ruleset, cooldown, fires, now, call, haCalls, sendCalls,
                   testResult, ncalls, nadmin, serviceResult,
                   waMessage, webhook>>

\* Mutation: saveRules writes the text to the store before it looks at the
\* validation result.
saveRulesUpdate_WriteFirst(a, text) ==
    /\ admin[a].pc = "idle"
    /\ nadmin < MaxAdminOps
    /\ nadmin' = nadmin + 1
    /\ ruleset' = [ruleset EXCEPT !.yaml_text = text.name,
                                  !.version = ruleset.version + 1]
    /\ admin' = [admin EXCEPT ![a] = [pc |-> "idle", returned |-> validateYaml(text)]]
    /\ UNCHANGED <<rulesCache, cooldown, fires, now, call, haCalls, sendCalls,
                   testResult, ncalls, serviceResult, waMessage, webhook>>

\* saveRules up to the end of the UPDATE: an invalid text returns the
\* validation result at once; a valid one is written to the store.
saveRulesUpdate(a, text) ==
    /\ admin[a].pc = "idle"
    /\ nadmin < MaxAdminOps
    /\ nadmin' = nadmin + 1
    /\ IF Has(validateYaml(text), "threw")
       THEN /\ admin' = [admin EXCEPT ![a] = [pc |-> "idle", threw |-> "saveRules"]]
            /\ UNCHANGED ruleset
       ELSE IF ~ validateYaml(text).valid
       THEN /\ admin' = [admin EXCEPT ![a] = [pc |-> "idle", returned |-> validateYaml(text)]]
            /\ UNCHANGED ruleset
       ELSE /\ ruleset' = [yaml_text |-> text.name,
                           parsed_json |-> JsonStringify(YamlLoad(text)),
                           version |-> ruleset.version + 1]
            /\ admin' = [admin EXCEPT ![a] =
                             [pc |-> "save", parsed |-> YamlLoad(text),
                              validation |-> validateYaml(text)]]
    /\ UNCHANGED <<rulesCache, cooldown, fires, now, call, haCalls, sendCalls,
                   testResult, ncalls, serviceResult, waMessage, webhook>>

\* saveRules after the await: this.rulesCache = parsed.
saveRulesAssign(a) ==
    /\ admin[a].pc = "save"
    /\ rulesCache' = admin[a].parsed
    /\ admin' = [admin EXCEPT ![a] = [pc |-> "idle", returned |-> admin[a].validation]]
    /\ UNCHANGED <<ruleset, cooldown, fires, now, call, haCalls, sendCalls,
                   testResult, ncalls, nadmin, serviceResult,
                   waMessage, webhook>>

\* ------------------------------------------------------------ dry run
\* Mutation: the dry run starts the cooldown of the first rule it matched.
testMessageCall_SetsCooldown(message) ==
    LET result == testMessage(rulesCache, message)
    IN  /\ testResult' = [message |-> message, result |-> result]
        /\ cooldown' =
               IF result.matchedRules = <<>> THEN cooldown
               ELSE cooldown \cup
                        {[rule_id |-> result.matchedRules[1].id,
                          scope_key |-> message.chatId,
                          expires_at |-> now + 1]}
        /\ UNCHANGED <<rulesCache, ruleset, fires, now, call, admin, haCalls,
                       sendCalls, serviceResult, ncalls, nadmin,
                       waMessage, webhook>>

\* testMessage is synchronous: one step computes its result.
testMessageCall(message) ==
    /\ testResult' = [message |-> message,
                      result |-> testMessage(rulesCache, message)]
    /\ UNCHANGED <<rulesCache, ruleset, cooldown, fires, now, call, admin,
                   haCalls, sendCalls, ncalls, nadmin, serviceResult,
                   waMessage, webhook>>

\* -------------------------------------------------------- processMessage
\* Mutation: the loop reads the working order from the cache as it is now.
CurrentRule_Live(c) ==
    IF CacheHasRules(rulesCache)
          /\ c.idx <= Len(SortedRules(rulesCache.rules))
    THEN SortedRules(rulesCache.rules)[c.idx]
    ELSE c.sortedRules[c.idx]

\* for (const rule of sortedRules): the rule the loop is at.
CurrentRule(c) == c.sortedRules[c.idx]

\* Mutation: the loop does not advance and evaluates the same rule again.
NextRule_Stay(c) == [c EXCEPT !.pc = "delete"]

\* The loop moves to the next rule, or the call returns after the last one.
NextRule(c) ==
    [c EXCEPT !.idx = c.idx + 1,
              !.pc = IF c.idx + 1 > Len(c.sortedRules) THEN "done" ELSE "delete"]

\* break / continue at the end of a matched rule's iteration.
AfterMatch(c) ==
    IF StopsChain(CurrentRule(c)) THEN [c EXCEPT !.pc = "done"] ELSE NextRule(c)

\* processMessage up to its first await, as the record of the invocation:
\* the working list is built from the cache as it is now.
StartedCall(message) ==
    LET threw == ~ RulesFalsy(rulesCache) /\ BuildThrows(rulesCache)
        sorted == IF CacheHasRules(rulesCache) /\ ~ threw
                  THEN SortedRules(rulesCache.rules) ELSE <<>>
    IN  [IdleCall EXCEPT
           !.callId = ncalls + 1,
           !.message = message,
           !.sortedRules = sorted,
           !.idx = 1,
           !.pc = IF threw THEN "threw"
                  ELSE IF sorted = <<>> THEN "done" ELSE "delete",
           !.failed = IF threw THEN "rules" ELSE "none",
           !.snapshot = rulesCache,
           !.cdAtStart = {e \in cooldown : e.expires_at > now}]

\* processMessage called with a message, up to its first await.
processMessage(p, message) ==
    /\ call[p].pc \in {"idle", "done", "threw"}
    /\ ncalls < MaxCalls
    /\ ncalls' = ncalls + 1
    /\ call' = [call EXCEPT ![p] = StartedCall(message)]
    /\ UNCHANGED <<rulesCache, ruleset, cooldown, fires, now, admin, haCalls,
                   sendCalls, testResult, nadmin, serviceResult,
                   waMessage, webhook>>

\* DELETE FROM wa_cooldown WHERE expires_at < NOW()
PurgeExpired(rows, t) == {e \in rows : ~ (e.expires_at < t)}

\* Mutation: a row still counts in the second of its expiry.
CooldownRowFound_Inclusive(rows, ruleId, scopeKey, t) ==
    \E e \in rows :
        /\ e.rule_id = ruleId
        /\ e.scope_key = scopeKey
        /\ e.expires_at >= t

\* Mutation: the lookup ignores the scope key.
CooldownRowFound_AnyScope(rows, ruleId, scopeKey, t) ==
    \E e \in rows : e.rule_id = ruleId /\ e.expires_at > t

\* SELECT 1 FROM wa_cooldown WHERE rule_id = ? AND scope_key = ?
\*   AND expires_at > NOW()
CooldownRowFound(rows, ruleId, scopeKey, t) ==
    \E e \in rows :
        /\ e.rule_id = ruleId
        /\ e.scope_key = scopeKey
        /\ e.expires_at > t

\* Mutation: a skipped rule that stops on match ends the loop.
CooldownSkip_Break(c) ==
    LET rule == CurrentRule(c)
        c2 == [c EXCEPT !.evaluatedRules =
                 Append(@, [id |-> rule.id, name |-> rule.name,
                            matched |-> FALSE, reason |-> <<"on cooldown">>,
                            skippedCooldown |-> TRUE])]
    IN  AfterMatch(c2)

\* if (onCooldown) { result.evaluatedRules.push(...); continue; }
CooldownSkip(c) ==
    LET rule == CurrentRule(c)
    IN  NextRule([c EXCEPT !.evaluatedRules =
            Append(@, [id |-> rule.id, name |-> rule.name,
                       matched |-> FALSE, reason |-> <<"on cooldown">>,
                       skippedCooldown |-> TRUE])])

\* isOnCooldown, first statement.
isOnCooldownDelete(p) ==
    /\ call[p].pc = "delete"
    /\ cooldown' = PurgeExpired(cooldown, now)
    /\ call' = [call EXCEPT ![p].pc = "select"]
    /\ UNCHANGED <<rulesCache, ruleset, fires, now, admin, haCalls, sendCalls,
                   testResult, ncalls, nadmin, serviceResult,
                   waMessage, webhook>>

\* isOnCooldown, second statement, and the loop body up to its next await:
\* the cooldown entry, or the matcher and its no-match entry, or the start of
\* executeActions.
isOnCooldownSelect(p) ==
    /\ call[p].pc = "select"
    /\ LET c == call[p]
           rule == CurrentRule(c)
           onCooldown ==
               CooldownRowFound(cooldown, rule.id, c.message.chatId, now)
           matchResult == IF MatchRuleThrows(rule)
                          THEN [matches |-> FALSE, reason |-> <<>>]
                          ELSE matchRule(rule, c.message)
       IN  call' = [call EXCEPT ![p] =
             IF ~ onCooldown /\ MatchRuleThrows(rule)
             THEN [c EXCEPT !.pc = "threw", !.failed = "rules"]
             ELSE IF onCooldown
             THEN CooldownSkip(c)
             ELSE IF matchResult.matches
             THEN [c EXCEPT !.pc = "action", !.act = 1,
                            !.actionResults = <<>>]
             ELSE NextRule([c EXCEPT !.evaluatedRules =
                      Append(@, [id |-> rule.id, name |-> rule.name,
                                 matched |-> FALSE,
                                 reason |-> matchResult.reason])])]
    /\ UNCHANGED <<rulesCache, ruleset, cooldown, fires, now, admin, haCalls,
                   sendCalls, testResult, ncalls, nadmin, serviceResult,
                   waMessage, webhook>>

\* HAClient.callService, the security check: TRUE when the call is refused.
ServiceRefused(service, allowedServices) ==
    /\ Len(allowedServices) > 0
    /\ service \notin Range(allowedServices)

\* HAClient.callService: whether the POST is made, and the result returned.
\* ok is the outcome of the POST.
callService(service, allowedServices, ok) ==
    IF ServiceRefused(service, allowedServices)
    THEN [posted |-> FALSE,
          result |-> [success |-> FALSE, error |-> "not in the allowed list"]]
    ELSE [posted |-> TRUE,
          result |-> IF ok THEN [success |-> TRUE]
                     ELSE [success |-> FALSE, error |-> "request failed"]]

\* Which branch of the try block an action takes.
IsHaService(action) ==
    /\ action.type = "ha_service"
    /\ Has(action, "service")
    /\ action.service # ""

IsReply(action) ==
    /\ action.type = "reply_whatsapp"
    /\ Has(action, "text")
    /\ action.text # <<>>

\* Mutation: a failed action ends the rule's action loop.
NextAction_AbortOnFailure(c, results) ==
    [c EXCEPT !.actionResults = results,
              !.act = c.act + 1,
              !.pc = IF c.act + 1 > Len(CurrentRule(c).actions)
                        \/ (Len(results) > 0 /\ ~ results[Len(results)].success)
                     THEN "logfire" ELSE "action"]

\* Mutation: the fire record is written after the rule's first action.
NextAction_LogEarly(c, results) ==
    [c EXCEPT !.actionResults = results, !.act = c.act + 1, !.pc = "logfire"]

\* After one action of the rule: the next action, or logRuleFire.
NextAction(c, results) ==
    [c EXCEPT !.actionResults = results,
              !.act = c.act + 1,
              !.pc = IF c.act + 1 > Len(CurrentRule(c).actions)
                     THEN "logfire" ELSE "action"]

\* executeActions: one iteration of its loop.  ok is the outcome of the
\* external call (the POST succeeds, sendTextMessage returns) or its
\* failure (the POST fails and callService reports it, sendTextMessage
\* throws and the catch block records it).
executeActions(p, ok) ==
    /\ call[p].pc = "action"
    /\ LET c == call[p]
           rule == CurrentRule(c)
           action == rule.actions[c.act]
           site == [call |-> c.callId, ruleId |-> rule.id, act |-> c.act]
       IN  IF IsHaService(action)
           THEN LET served == callService(action.service,
                                          config.allowedServices, ok)
                IN  /\ haCalls' =
                           IF served.posted
                           THEN haCalls \cup
                                    {[site |-> site,
                                      service |-> action.service,
                                      allowedServices |->
                                          config.allowedServices]}
                           ELSE haCalls
                    /\ call' = [call EXCEPT ![p] = NextAction(c,
                           Append(c.actionResults,
                                  [type |-> "ha_service"] @@ served.result))]
                    /\ UNCHANGED sendCalls
           ELSE IF IsReply(action)
           THEN /\ sendCalls' = sendCalls \cup
                       {[site |-> site, chatId |-> c.message.chatId,
                         text |-> action.text]}
                /\ call' = [call EXCEPT ![p] = NextAction(c,
                       Append(c.actionResults,
                              IF ok
                              THEN [type |-> "reply_whatsapp",
                                    success |-> TRUE]
                              ELSE [type |-> action.type, success |-> FALSE,
                                    error |-> "send failed"])) ]
                /\ UNCHANGED haCalls
           ELSE /\ call' = [call EXCEPT ![p] = NextAction(c, c.actionResults)]
                /\ UNCHANGED <<haCalls, sendCalls>>
    /\ UNCHANGED <<rulesCache, ruleset, cooldown, fires, now, admin,
                   testResult, ncalls, nadmin, serviceResult,
                   waMessage, webhook>>

RECURSIVE AllSucceeded(_)
\* results.every(r => r.success)
AllSucceeded(results) ==
    IF results = <<>> THEN TRUE
    ELSE Head(results).success /\ AllSucceeded(Tail(results))

\* The row logRuleFire inserts; message_id is the caller's dbMessageId.
RuleFireRow(c) ==
    LET rule == CurrentRule(c)
    IN  [rule_id |-> rule.id, rule_name |-> rule.name,
         message_id |-> c.callId, chat_id |-> c.message.chatId,
         sender_id |-> c.message.senderId, matched_text |-> c.message.text,
         actions_executed |-> c.actionResults,
         success |-> AllSucceeded(c.actionResults),
         event_type |-> IncomingEvent(c.message)]

\* Mutation: the insert overwrites the newest row.
InsertRuleFire_Overwrite(rows, row) ==
    IF rows = <<>> THEN <<row>> ELSE [rows EXCEPT ![Len(rows)] = row]

\* INSERT INTO wa_rule_fire
InsertRuleFire(rows, row) == Append(rows, row)

\* result.executedActions.push(...) for every action result.
ExecutedEntries(rule, results) ==
    [k \in 1..Len(results) |->
        [ruleId |-> rule.id, ruleName |-> rule.name, type |-> results[k].type,
         success |-> results[k].success]]

\* logRuleFire, then the loop body up to its next await: the evaluation
\* entry and the executed actions are added to the result.
logRuleFire(p) ==
    /\ call[p].pc = "logfire"
    /\ LET c == call[p]
           rule == CurrentRule(c)
           c2 == [c EXCEPT
                    !.evaluatedRules =
                        Append(@, [id |-> rule.id, name |-> rule.name,
                                   matched |-> TRUE,
                                   reason |-> matchRule(rule, c.message).reason,
                                   stoppedChain |-> StopsChain(rule)]),
                    !.executedActions =
                        @ \o ExecutedEntries(rule, c.actionResults)]
       IN  /\ fires' = InsertRuleFire(fires, RuleFireRow(c))
           /\ call' = [call EXCEPT ![p] =
                         IF HasCooldown(rule) THEN [c2 EXCEPT !.pc = "setcd"]
                         ELSE AfterMatch(c2)]
    /\ UNCHANGED <<rulesCache, ruleset, cooldown, now, admin, haCalls,
                   sendCalls, testResult, ncalls, nadmin, serviceResult,
                   waMessage, webhook>>

\* Mutation: the upsert keeps the later of the old and the new expiry.
UpsertCooldown_KeepLater(rows, ruleId, scopeKey, expiresAt) ==
    LET old == {e \in rows : e.rule_id = ruleId /\ e.scope_key = scopeKey
                                /\ e.expires_at > expiresAt}
    IN  IF old # {} THEN rows
        ELSE {e \in rows : ~ (e.rule_id = ruleId /\ e.scope_key = scopeKey)}
                 \cup {[rule_id |-> ruleId, scope_key |-> scopeKey,
                        expires_at |-> expiresAt]}

\* INSERT ... ON DUPLICATE KEY UPDATE expires_at = NOW() + seconds
UpsertCooldown(rows, ruleId, scopeKey, expiresAt) ==
    {e \in rows : ~ (e.rule_id = ruleId /\ e.scope_key = scopeKey)}
        \cup {[rule_id |-> ruleId, scope_key |-> scopeKey,
               expires_at |-> expiresAt]}

\* setCooldown, then break or continue.
setCooldown(p) ==
    /\ call[p].pc = "setcd"
    /\ LET c == call[p]
           rule == CurrentRule(c)
       IN  /\ cooldown' = UpsertCooldown(cooldown, rule.id, c.message.chatId,
                                         now + rule.cooldown_seconds)
           /\ call' = [call EXCEPT ![p] = AfterMatch(c)]
    /\ UNCHANGED <<rulesCache, ruleset, fires, now, admin, haCalls, sendCalls,
                   testResult, ncalls, nadmin, serviceResult,
                   waMessage, webhook>>

\* POST /api/ha/call-service and any other caller of HAClient.callService:
\* the service and the allowlist are the caller's.
callServiceCall(service, allowedServices, ok) ==
    LET served == callService(service, allowedServices, ok)
    IN  /\ haCalls' =
               IF served.posted
               THEN haCalls \cup
                        {[site |-> [call |-> 0, ruleId |-> "", act |-> 0],
                          service |-> service,
                          allowedServices |-> allowedServices]}
               ELSE haCalls
        /\ serviceResult' = [service |-> service,
                             allowedServices |-> allowedServices,
                             result |-> served.result]
        /\ UNCHANGED <<rulesCache, ruleset, cooldown, fires, now, call, admin,
                       sendCalls, testResult, ncalls, nadmin,
                       waMessage, webhook>>

\* ------------------------------------------------------------- matcher
\* The longest pattern and message text of the text-filter inputs.
MaxLen == 3

\* The record with the fields of a and of b (b wins).
Merge(a, b) ==
    [f \in DOMAIN a \cup DOMAIN b |-> IF f \in DOMAIN b THEN b[f] ELSE a[f]]

BareNumber == <<"3", "1">>
OtherSender == <<"4", "2", "@", "s">>

EventOptions ==
    { <<>>, [events |-> <<>>], [events |-> <<"CONNECTION_UPDATE">>],
      [events |-> <<"MESSAGES_UPSERT", "CONNECTION_UPDATE">>] }

ChatOptions ==
    { <<>>, [chat |-> [type |-> "any"]], [chat |-> [type |-> "group"]],
      [chat |-> [type |-> "direct", ids |-> <<>>]],
      [chat |-> [ids |-> <<"x">>]] }

SenderOptions ==
    { <<>>,
      [sender |-> [ids |-> <<>>, numbers |-> <<>>]],
      [sender |-> [ids |-> <<Sender>>]],
      [sender |-> [numbers |-> << <<"+", "3", " ", "1">> >>]],
      [sender |-> [ids |-> <<Sender>>,
                   numbers |-> << <<"4", "2">>, <<"+", "3", " ", "1">> >>]],
      [sender |-> [ids |-> <<Sender>>, numbers |-> << <<"4", "2">> >>]],
      [sender |-> [ids |-> <<OtherSender>>, numbers |-> <<BareNumber>>]] }

TextOptions ==
    { <<>>,
      [text |-> [mode |-> "contains", patterns |-> <<>>]],
      [text |-> [patterns |-> << <<"a">> >>]],
      [text |-> [mode |-> "starts_with", patterns |-> << <<"B">> >>]],
      [text |-> [mode |-> "regex", patterns |-> << <<"[">>, <<"A">> >>]],
      [text |-> [mode |-> "regex", patterns |-> << <<"[">> >>]] }

MatchRule(match) ==
    [id |-> "m", name |-> "matcher", enabled |-> TRUE, match |-> match,
     actions |-> <<ReplyOk>>]

\* A pair of inputs of matchRule: a rule that combines one option of each
\* stage, and a message.
StageInput(e, c, s, t, message) ==
    [rule |-> MatchRule(Merge(Merge(Merge(e, c), s), t)),
     message |-> message]

StageMessages ==
    { Merge([chatId |-> chat[1], chatType |-> chat[2],
             senderId |-> senderId, text |-> text], e) :
        chat \in {<<"x", "direct">>, <<"y", "direct">>, <<"x", "group">>},
        senderId \in {Sender, BareNumber, OtherSender},
        text \in {<<>>, <<"B", "a">>, <<"[">>},
        e \in {<<>>, [event |-> "MESSAGES_UPSERT"],
                [event |-> "CONNECTION_UPDATE"]} }

\* Every string of at most MaxLen characters over a letter in each case
\* and two kinds of white space.
Strings == UNION {[1..n -> {"a", "B", " ", "\t"}] : n \in 0..MaxLen}

\* A pair of inputs of matchRule: a rule with one pattern, and a message
\* with a text.
TextInput(mode, pattern, text) ==
    [rule |-> MatchRule([text |-> [mode |-> mode, patterns |-> <<pattern>>]]),
     message |-> [chatId |-> "x", chatType |-> "direct", senderId |-> Sender,
                  text |-> text]]

\* One matchRule call is about to be made on a pair of inputs.
InitMatch ==
    /\ rulesCache = NoCache
    /\ ruleset = SeedRuleset
    /\ cooldown = {}
    /\ fires = <<>>
    /\ now = 0
    /\ call = [p \in Procs |-> IdleCall]
    /\ admin = [a \in Admins |-> IdleAdmin]
    /\ haCalls = {}
    /\ sendCalls = {}
    /\ \/ \E e \in EventOptions, c \in ChatOptions, s \in SenderOptions,
             t \in TextOptions, message \in StageMessages :
              testResult = StageInput(e, c, s, t, message)
       \/ \E mode \in {"contains", "starts_with"}, pattern \in Strings,
             text \in Strings :
              testResult = TextInput(mode, pattern, text)
    /\ serviceResult = [none |-> TRUE]
    /\ ncalls = 0
    /\ nadmin = 0
    /\ waMessage = <<>>
    /\ webhook = [p \in Procs |-> IdleWebhook]

\* matchRule is synchronous and pure: one step computes its result.
matchRuleCall ==
    /\ Has(testResult, "rule")
    /\ ~ Has(testResult, "result")
    /\ testResult' = [rule |-> testResult.rule,
                      message |-> testResult.message,
                      result |-> matchRule(testResult.rule,
                                           testResult.message)]
    /\ UNCHANGED <<rulesCache, ruleset, cooldown, fires, now, call, admin,
                   haCalls, sendCalls, ncalls, nadmin, serviceResult,
                   waMessage, webhook>>

\* ----------------------------------------------------------- validator
\* A rule that passed no validation: it has no match block.
RuleNoMatch ==
    [id |-> "r5", name |-> "fifth", enabled |-> TRUE,
     actions |-> <<ReplyOk>>]

\* The longest rule list of a text handed to the validator.
MaxRules == 2

RuleBadRegex ==
    [id |-> "r3", name |-> "third", enabled |-> TRUE,
     match |-> [text |-> [mode |-> "regex", patterns |-> << <<"[">> >>]],
     actions |-> <<ReplyOk>>]

RuleNullAction ==
    [id |-> "r4", name |-> "fourth", enabled |-> TRUE, match |-> <<>>,
     actions |-> <<[null |-> TRUE]>>]

\* The entries a rules list is built from: two rules that pass, a rule with
\* the id of the first, a rule without a match block, a rule whose pattern
\* does not compile, a rule with a null action, null, and a string.
RuleEntries ==
    { RulesStop[1], RulesStop[2], RulesDup[2], RuleNoMatch, RuleBadRegex,
      RuleNullAction, [null |-> TRUE], [primitive |-> TRUE] }

RuleLists == UNION {[1..n -> RuleEntries] : n \in 0..MaxRules}

\* The texts handed to validateYaml: a text that does not parse, the empty
\* document, a document without rules, documents whose rules field is a
\* number or a string, and every rules list with version 1 or 2.
ValidateTexts ==
    { [name |-> "broken", syntaxError |-> TRUE],
      [name |-> "empty", syntaxError |-> FALSE, doc |-> NoCache],
      [name |-> "norules", syntaxError |-> FALSE, doc |-> [version |-> 1]],
      [name |-> "number", syntaxError |-> FALSE,
       doc |-> [version |-> 1,
                rulesOther |-> [truthy |-> TRUE, iterable |-> FALSE]]],
      [name |-> "string", syntaxError |-> FALSE,
       doc |-> [version |-> 1,
                rulesOther |-> [truthy |-> TRUE, iterable |-> TRUE,
                                length |-> 2]]] }
    \cup { [name |-> "list", syntaxError |-> FALSE,
            doc |-> [version |-> v, rules |-> rules]] :
             v \in {1, 2}, rules \in RuleLists }

\* validateYaml called on its own: it is synchronous and touches nothing
\* but its result.
validateYamlCall(a, text) ==
    /\ admin[a].pc = "idle"
    /\ admin' = [admin EXCEPT ![a] =
                    IF Has(validateYaml(text), "threw")
                    THEN [pc |-> "idle", text |-> text,
                          threw |-> "validateYaml"]
                    ELSE [pc |-> "idle", text |-> text,
                          returned |-> validateYaml(text)]]
    /\ UNCHANGED <<rulesCache, ruleset, cooldown, fires, now, call, haCalls,
                   sendCalls, testResult, ncalls, nadmin, serviceResult,
                   waMessage, webhook>>

\* --------------------------------------------------------------- faults
\* A rule as a store written by other means can hold it: its only action is
\* a service call that names no service.
RuleNoService ==
    [id |-> "r6", name |-> "sixth", enabled |-> TRUE, match |-> <<>>,
     actions |-> << [type |-> "ha_service"] >>]

\* Values of wa_ruleset.parsed_json that saveRules never writes: text that
\* is not JSON, an empty column, the JSON null, a document without rules, a
\* rules field holding 0, a number or a string, a rules list with a null
\* entry, and a rule without a match block.
CorruptColumns ==
    { [garbage |-> TRUE],
      [empty |-> TRUE],
      JsonStringify(NoCache),
      JsonStringify([version |-> 1]),
      JsonStringify([version |-> 1,
                     rulesOther |-> [truthy |-> FALSE, iterable |-> FALSE]]),
      JsonStringify([version |-> 1,
                     rulesOther |-> [truthy |-> TRUE, iterable |-> FALSE]]),
      JsonStringify([version |-> 1,
                     rulesOther |-> [truthy |-> TRUE, iterable |-> TRUE]]),
      JsonStringify([version |-> 1, rules |-> <<[null |-> TRUE]>>]),
      JsonStringify([version |-> 1, rules |-> <<RuleNoMatch>>]),
      JsonStringify([version |-> 1, rules |-> <<RuleNoService>>]) }

\* The parsed_json column is overwritten behind the engine's back.
corruptStore(column) ==
    /\ nadmin < MaxAdminOps
    /\ nadmin' = nadmin + 1
    /\ ruleset' = [ruleset EXCEPT !.parsed_json = column]
    /\ UNCHANGED <<rulesCache, cooldown, fires, now, call, admin, haCalls,
                   sendCalls, testResult, ncalls, serviceResult,
                   waMessage, webhook>>

\* Mutation: a rejected store operation is swallowed and the loop goes on
\* with the next rule.
dbRejects_Swallowed(p) ==
    /\ call[p].pc \in {"delete", "select", "logfire", "setcd"}
    /\ call' = [call EXCEPT ![p] = NextRule([call[p] EXCEPT !.failed = "store"])]
    /\ UNCHANGED <<rulesCache, ruleset, cooldown, fires, now, admin, haCalls,
                   sendCalls, testResult, ncalls, nadmin, serviceResult,
                   waMessage, webhook>>

\* The store rejects the operation a processMessage call is awaiting: the
\* DELETE or SELECT of isOnCooldown, the INSERT of logRuleFire or the upsert
\* of setCooldown.  No await is inside a try block, so the call rejects.
dbRejects(p) ==
    /\ call[p].pc \in {"delete", "select", "logfire", "setcd"}
    /\ call' = [call EXCEPT ![p].pc = "threw", ![p].failed = "store"]
    /\ UNCHANGED <<rulesCache, ruleset, cooldown, fires, now, admin, haCalls,
                   sendCalls, testResult, ncalls, nadmin, serviceResult,
                   waMessage, webhook>>

\* The store rejects the SELECT of reloadRules, which is outside its try
\* block: reloadRules rejects and the cache keeps its value.
reloadRulesRejects(a) ==
    /\ admin[a].pc = "idle"
    /\ nadmin < MaxAdminOps
    /\ nadmin' = nadmin + 1
    /\ admin' = [admin EXCEPT ![a] = [pc |-> "idle", threw |-> "reloadRules"]]
    /\ UNCHANGED <<rulesCache, ruleset, cooldown, fires, now, call, haCalls,
                   sendCalls, testResult, ncalls, serviceResult,
                   waMessage, webhook>>

\* The store rejects the UPDATE of saveRules for a text that passed
\* validation: saveRules rejects before it assigns the cache.
saveRulesRejects(a, text) ==
    /\ admin[a].pc = "idle"
    /\ nadmin < MaxAdminOps
    /\ ~ Has(validateYaml(text), "threw")
    /\ validateYaml(text).valid
    /\ nadmin' = nadmin + 1
    /\ admin' = [admin EXCEPT ![a] = [pc |-> "idle", threw |-> "saveRules"]]
    /\ UNCHANGED <<rulesCache, ruleset, cooldown, fires, now, call, haCalls,
                   sendCalls, testResult, ncalls, serviceResult,
                   waMessage, webhook>>

\* A second passes.  NOW() is only ever compared with the expiry of a
\* cooldown row, so the clock stands still while the table is empty.
Tick ==
    /\ now < MaxTime
    /\ cooldown # {}
    /\ now' = now + 1
    /\ UNCHANGED <<rulesCache, ruleset, cooldown, fires, call, admin, haCalls,
                   sendCalls, testResult, ncalls, nadmin, serviceResult,
                   waMessage, webhook>>

\* The rule-set operations of the REST layer.
AdminNext(as) ==
    \/ \E a \in as : reloadRulesSelect(a)
    \/ \E a \in as : reloadRulesAssign(a)
    \/ \E a \in as, text \in YamlTexts : saveRulesUpdate(a, text)
    \/ \E a \in as : saveRulesAssign(a)

\* The steps of the processMessage invocations running in the slots ps.
EngineNext(ps) ==
    \/ \E p \in ps, message \in Messages : processMessage(p, message)
    \/ \E p \in ps : isOnCooldownDelete(p)
    \/ \E p \in ps : isOnCooldownSelect(p)
    \/ \E p \in ps, ok \in BOOLEAN : executeActions(p, ok)
    \/ \E p \in ps : logRuleFire(p)
    \/ \E p \in ps : setCooldown(p)

\* The engine under concurrent webhook deliveries and rule-set edits.
Next ==
    \/ AdminNext({"a1"})
    \/ EngineNext(Procs)
    \/ Tick

Spec == Init /\ [][Next]_vars

\* The engine with the dry-run endpoint: one webhook delivery at a time,
\* rule-set edits and testMessage calls at any point of it.
NextDryRun ==
    \/ AdminNext({"a1"})
    \/ \E message \in Messages : testMessageCall(message)
    \/ EngineNext({"p1"})
    \/ Tick

SpecDryRun == Init /\ [][NextDryRun]_vars

\* The service identifiers and allowlists handed to HAClient.callService.
Services == {"script.turn_on", "automation.trigger", "light.turn_on"}

AllowLists ==
    { <<>>, DefaultAllowedServices, <<"light.turn_on">>, <<"">> }

\* The home-automation client on its own, under every caller.
NextHA ==
    \E service \in Services, allowedServices \in AllowLists, ok \in BOOLEAN :
        callServiceCall(service, allowedServices, ok)

SpecHA == Init /\ [][NextHA]_vars

\* The engine over a store whose rule-set row is corrupted: one webhook
\* delivery at a time.
NextCorrupt ==
    \/ AdminNext({"a1"})
    \/ \E column \in CorruptColumns : corruptStore(column)
    \/ EngineNext({"p1"})
    \/ Tick

SpecCorrupt == Init /\ [][NextCorrupt]_vars

\* The engine over a store whose operations can fail: one webhook delivery
\* at a time.
NextFaults ==
    \/ AdminNext({"a1"})
    \/ reloadRulesRejects("a1")
    \/ \E text \in YamlTexts : saveRulesRejects("a1", text)
    \/ EngineNext({"p1"})
    \/ dbRejects("p1")
    \/ Tick

SpecFaults == Init /\ [][NextFaults]_vars

\* The matcher on its own, under every pair of inputs.
NextMatch == matchRuleCall

SpecMatch == InitMatch /\ [][NextMatch]_vars

\* The validator on its own, under every text.
NextValidate ==
    \E text \in ValidateTexts : validateYamlCall("a1", text)

SpecValidate == Init /\ [][NextValidate]_vars

TypeOK ==
    /\ now \in 0..MaxTime
    /\ ncalls \in 0..MaxCalls
    /\ nadmin \in 0..MaxAdminOps

\* ------------------------------------------------------------------ claims
\* The rule-set operation of the first slot.
Admin == admin["a1"]

Started(c) == c.pc # "idle"

InFlight(c) == c.pc \in {"delete", "select", "action", "logfire", "setcd"}

\* The stop_on_match flag as declared: absent counts as true.
DeclaredStop(rule) ==
    IF "stop_on_match" \in DOMAIN rule THEN rule.stop_on_match ELSE TRUE

\* The priority as declared: absent counts as 100.
DeclaredPriority(rule) ==
    IF "priority" \in DOMAIN rule THEN rule.priority ELSE 100

\* A rule at an earlier position than k matched and did not have
\* stop_on_match = false.
Blocked(c, k) ==
    \E j \in 1..(k - 1) :
        /\ j <= Len(c.evaluatedRules)
        /\ c.evaluatedRules[j].matched
        /\ DeclaredStop(c.sortedRules[j])

\* The call has evaluated the rule at position k or is evaluating it: an
\* evaluation entry, the loop position, a fire record or an external call.
Touched(c, k) ==
    \/ k <= Len(c.evaluatedRules)
    \/ InFlight(c) /\ c.idx = k
    \/ \E n \in 1..Len(fires) :
           /\ fires[n].message_id = c.callId
           /\ fires[n].rule_id = c.sortedRules[k].id
    \/ \E x \in haCalls \cup sendCalls :
           /\ x.site.call = c.callId
           /\ x.site.ruleId = c.sortedRules[k].id

MatchedCount(c) ==
    Cardinality({k \in 1..Len(c.evaluatedRules) : c.evaluatedRules[k].matched})

NoCooldownSkip(c) ==
    \A k \in 1..Len(c.evaluatedRules) :
        ~ ("skippedCooldown" \in DOMAIN c.evaluatedRules[k])

\* The two-rule scenario: priorities 50 and 100 in the working order, both
\* rules matching the message.
TwoMatchingRules(c) ==
    /\ Len(c.sortedRules) = 2
    /\ DeclaredPriority(c.sortedRules[1]) = 50
    /\ DeclaredPriority(c.sortedRules[2]) = 100
    /\ matchRule(c.sortedRules[1], c.message).matches
    /\ matchRule(c.sortedRules[2], c.message).matches

\* C1: a rule of the working order is evaluated (entry, cooldown lookup,
\* actions, fire record) only if no earlier rule matched with stop_on_match
\* not false, and a call that has returned has evaluated every rule that no
\* earlier rule blocked; the entries follow the working order.  With two
\* matching rules at priorities 50 and 100 and no cooldown skip, stop on the
\* first gives one matched rule and no action of the second, and
\* stop_on_match = false on the first makes both fire.
C1_StopOnMatch ==
    \A p \in Procs :
        LET c == call[p]
        IN  Started(c) =>
              /\ Len(c.evaluatedRules) <= Len(c.sortedRules)
              /\ \A k \in 1..Len(c.evaluatedRules) :
                     c.evaluatedRules[k].id = c.sortedRules[k].id
              /\ \A k \in 1..Len(c.sortedRules) :
                     /\ Touched(c, k) => ~ Blocked(c, k)
                     /\ (c.pc = "done" /\ ~ Touched(c, k)) => Blocked(c, k)
              /\ (c.pc = "done" /\ TwoMatchingRules(c) /\ NoCooldownSkip(c)) =>
                     IF DeclaredStop(c.sortedRules[1])
                     THEN /\ MatchedCount(c) = 1
                          /\ \A n \in 1..Len(c.executedActions) :
                                 c.executedActions[n].ruleId
                                     # c.sortedRules[2].id
                     ELSE MatchedCount(c) = 2

\* A call returned after its first rule matched and stopped the chain ahead
\* of a second matching rule.
C1_Witness ==
    \E p \in Procs :
        LET c == call[p]
        IN  /\ c.pc = "done"
            /\ TwoMatchingRules(c)
            /\ DeclaredStop(c.sortedRules[1])
            /\ Len(c.evaluatedRules) = 1
            /\ c.evaluatedRules[1].matched
            /\ ~ Touched(c, 2)

\* C2: the working order of every call is ascending in the declared
\* priority (absent counts as 100), for every integer priority including 0.
C2_AscendingPriority ==
    \A p \in Procs :
        \A i, j \in 1..Len(call[p].sortedRules) :
            i < j => DeclaredPriority(call[p].sortedRules[i])
                         <= DeclaredPriority(call[p].sortedRules[j])

\* The call has passed the cooldown check for its current rule and has not
\* yet returned from setCooldown.
Firing(c) ==
    /\ c.pc \in {"action", "logfire", "setcd"}
    /\ "cooldown_seconds" \in DOMAIN CurrentRule(c)
    /\ CurrentRule(c).cooldown_seconds > 0

\* C3: two invocations for the same chat never both pass the cooldown check
\* of the same rate-limited rule and both execute its actions.
C3_NoDoubleFire ==
    \A p, q \in Procs :
        (p # q /\ Firing(call[p]) /\ Firing(call[q])
              /\ call[p].message.chatId = call[q].message.chatId)
            => CurrentRule(call[p]).id # CurrentRule(call[q]).id

\* The position of the rule with this id in the call's working order, 0 when
\* the working order does not hold it.
PositionOf(c, ruleId) ==
    IF \E k \in 1..Len(c.sortedRules) : c.sortedRules[k].id = ruleId
    THEN CHOOSE k \in 1..Len(c.sortedRules) : c.sortedRules[k].id = ruleId
    ELSE 0

\* The call reports the rule as skipped for cooldown and has executed none
\* of its actions.
ReportsSkipped(c, ruleId) ==
    /\ \E k \in 1..Len(c.evaluatedRules) :
           /\ c.evaluatedRules[k].id = ruleId
           /\ ~ c.evaluatedRules[k].matched
           /\ "skippedCooldown" \in DOMAIN c.evaluatedRules[k]
           /\ c.evaluatedRules[k].skippedCooldown
    /\ \A x \in haCalls \cup sendCalls :
           ~ (x.site.call = c.callId /\ x.site.ruleId = ruleId)
    /\ \A n \in 1..Len(c.executedActions) :
           c.executedActions[n].ruleId # ruleId

\* The rows of wa_cooldown that were unexpired for the call's chat when the
\* call began and are still unexpired now, for rules of its working order.
ActiveSinceStart(c) ==
    {e \in c.cdAtStart : /\ e.scope_key = c.message.chatId
                          /\ e.expires_at > now
                          /\ PositionOf(c, e.rule_id) > 0}

Returns(p) == call[p].pc # "done" /\ call'[p].pc = "done"

\* C4 as stated: a call for the chat that began after the rule's cooldown
\* was set and returns before its expiry reports the rule with
\* skippedCooldown:true and executes none of its actions.
C4_AlwaysReported ==
    [][\A p \in Procs :
          Returns(p) =>
              \A e \in ActiveSinceStart(call[p])' :
                  ReportsSkipped(call[p], e.rule_id)']_vars

\* No unexpired row of wa_cooldown for the rule the call is at.
NoActiveRow(c) ==
    \A e \in cooldown :
        (e.rule_id = CurrentRule(c).id /\ e.scope_key = c.message.chatId)
            => e.expires_at <= now

\* The step from the cooldown lookup ran the matcher: it either starts the
\* rule's actions or records the matcher's reason.
MatcherDecided(c, d) ==
    LET m == matchRule(CurrentRule(c), c.message)
    IN  IF m.matches
        THEN d.pc = "action" /\ d.idx = c.idx
        ELSE /\ Len(d.evaluatedRules) = Len(c.evaluatedRules) + 1
             /\ d.evaluatedRules[Len(d.evaluatedRules)] =
                    [id |-> CurrentRule(c).id, name |-> CurrentRule(c).name,
                     matched |-> FALSE, reason |-> m.reason]

\* C4 (amended): a call for the chat that began after the rule's cooldown
\* was set, returns before its expiry and reaches the rule (no earlier rule
\* matched with stop_on_match not false) reports it with skippedCooldown:true
\* and executes none of its actions; and a lookup that finds no unexpired row
\* for (rule, chat) hands the rule to the matcher.
C4_ReportedWhenReached ==
    [][\A p \in Procs :
          /\ Returns(p) =>
                 \A e \in ActiveSinceStart(call[p])' :
                     ~ Blocked(call[p], PositionOf(call[p], e.rule_id))'
                         => ReportsSkipped(call[p], e.rule_id)'
          /\ (call[p].pc = "select" /\ call'[p] # call[p]
                  /\ NoActiveRow(call[p]))
                 => MatcherDecided(call[p], call'[p])]_vars

\* A call has returned with a skippedCooldown entry for a rule whose
\* cooldown was set by an earlier call and has not expired.
C4_Witness ==
    \E p \in Procs :
        /\ call[p].pc = "done"
        /\ \E e \in ActiveSinceStart(call[p]) :
               /\ ReportsSkipped(call[p], e.rule_id)
               /\ \E n \in 1..Len(fires) :
                      /\ fires[n].rule_id = e.rule_id
                      /\ fires[n].chat_id = call[p].message.chatId
                      /\ fires[n].message_id # call[p].callId

\* The RuleFire rows the call appended, in insertion order.
FiresOf(c) ==
    LET Mine(row) == row.message_id = c.callId
    IN  SelectSeq(fires, Mine)

\* The evaluation entries of the call with matched:true, in order.
MatchedEntries(c) ==
    LET IsMatch(entry) == entry.matched
    IN  SelectSeq(c.evaluatedRules, IsMatch)

\* A returned call has appended as many RuleFire rows as it reports matched
\* rules, one per matched rule id, in the order of the matches.
OneFirePerMatch ==
    \A p \in Procs :
        LET c == call[p]
        IN  c.pc = "done" =>
              /\ Len(FiresOf(c)) = Len(MatchedEntries(c))
              /\ \A n \in 1..Len(FiresOf(c)) :
                     FiresOf(c)[n].rule_id = MatchedEntries(c)[n].id
              /\ \A n, m \in 1..Len(FiresOf(c)) :
                     FiresOf(c)[n].rule_id = FiresOf(c)[m].rule_id => n = m

\* C5: every returned call appended exactly one RuleFire record per matched
\* rule, and no step of processMessage, testMessage, saveRules or
\* reloadRules changes or removes a record that is already in the log.
C5_FireLog ==
    [][/\ OneFirePerMatch'
       /\ Len(fires') >= Len(fires)
       /\ \A n \in 1..Len(fires) : fires'[n] = fires[n]]_vars

\* A call has returned with a matched rule and its RuleFire record while
\* the log already held the record of an earlier call.
C5_Witness ==
    \E p \in Procs :
        /\ call[p].pc = "done"
        /\ Len(FiresOf(call[p])) >= 1
        /\ Len(fires) > Len(FiresOf(call[p]))
        /\ "result" \in DOMAIN testResult

\* C6: a POST to the home-automation API is made only for a service that is
\* a member of the caller's allowlist, whatever the allowlist (the empty one
\* included), and a call for any other service returns success:false with
\* the allowlist error.
C6_AllowlistEnforced ==
    /\ \A h \in haCalls : h.service \in Range(h.allowedServices)
    /\ ("result" \in DOMAIN serviceResult
            /\ serviceResult.service \notin Range(serviceResult.allowedServices))
           => /\ ~ serviceResult.result.success
              /\ serviceResult.result.error = "not in the allowed list"

\* The outcomes the call reports for the actions of one rule, in order.
OutcomesOf(c, ruleId) ==
    LET OfRule(entry) == entry.ruleId = ruleId
    IN  SelectSeq(c.executedActions, OfRule)

\* Action j of the rule was attempted by the call: the external call was
\* made, or the allowlist check refused it.
Attempted(c, rule, j, outcome) ==
    LET site == [call |-> c.callId, ruleId |-> rule.id, act |-> j]
    IN  /\ outcome.type = rule.actions[j].type
        /\ \/ \E x \in haCalls \cup sendCalls : x.site = site
           \/ /\ outcome.type = "ha_service"
              /\ ~ outcome.success
              /\ rule.actions[j].service \notin Range(config.allowedServices)

\* C7: whatever the outcomes of a matched rule's actions, every action of
\* the rule is attempted, the RuleFire record is written with success equal
\* to the conjunction of the outcomes, a rule with stop_on_match = false is
\* followed by the evaluation of the next rule, and the call goes on to
\* logRuleFire with one outcome per action (no failure leaves the loop).
C7_FailureIsolated ==
    \A p \in Procs :
        LET c == call[p]
        IN  /\ c.pc = "logfire" =>
                   Len(c.actionResults) = Len(c.sortedRules[c.idx].actions)
            /\ c.pc = "done" =>
                 \A k \in 1..Len(c.evaluatedRules) :
                   c.evaluatedRules[k].matched =>
                     LET rule == c.sortedRules[k]
                         out == OutcomesOf(c, rule.id)
                     IN  /\ Len(out) = Len(rule.actions)
                         /\ \A j \in 1..Len(out) :
                                Attempted(c, rule, j, out[j])
                         /\ \E n \in 1..Len(fires) :
                                /\ fires[n].message_id = c.callId
                                /\ fires[n].rule_id = rule.id
                                /\ Len(fires[n].actions_executed) = Len(out)
                                /\ fires[n].success =
                                       (\A j \in 1..Len(out) : out[j].success)
                         /\ ("stop_on_match" \in DOMAIN rule
                                 /\ rule.stop_on_match = FALSE
                                 /\ k < Len(c.sortedRules))
                                => Len(c.evaluatedRules) > k

\* The call returned after the first action of a matched rule was refused
\* by the allowlist, its second action was carried out, the RuleFire record
\* has success false and the next rule was evaluated.
RefusedThenContinued(c) ==
    /\ c.pc = "done"
    /\ Len(c.evaluatedRules) = 2
    /\ c.evaluatedRules[1].matched
    /\ LET out == OutcomesOf(c, c.evaluatedRules[1].id)
       IN  /\ Len(out) = 2
           /\ out[1].type = "ha_service"
           /\ ~ out[1].success
           /\ out[2].success
    /\ \E n \in 1..Len(fires) :
           /\ fires[n].message_id = c.callId
           /\ fires[n].rule_id = c.evaluatedRules[1].id
           /\ ~ fires[n].success

\* The call returned after sendTextMessage threw in the first action of a
\* rule and the rule's second action was still carried out.
ThrewThenContinued(c) ==
    /\ c.pc = "done"
    /\ Len(c.executedActions) = 2
    /\ c.executedActions[1].type = "reply_whatsapp"
    /\ ~ c.executedActions[1].success
    /\ c.executedActions[2].success

\* Both kinds of failure have happened, each followed by the rest of the
\* rule's actions.
C7_Witness ==
    \E p, q \in Procs :
        RefusedThenContinued(call[p]) /\ ThrewThenContinued(call[q])

\* C8: a testMessage call changes neither the cooldown rows, the RuleFire
\* log, the stored rule set nor the cache, and calls neither the
\* home-automation service nor the message sender.
C8_TestMessageFrame ==
    [][testResult' # testResult =>
           UNCHANGED <<cooldown, fires, ruleset, rulesCache, haCalls,
                       sendCalls>>]_vars

\* A dry run has reported a matched rule while a cooldown row, a RuleFire
\* record and external calls exist.
C8_Witness ==
    /\ "result" \in DOMAIN testResult
    /\ testResult.result.matchedRules # <<>>
    /\ testResult.result = testMessage(rulesCache, testResult.message)
    /\ cooldown # {}
    /\ fires # <<>>
    /\ haCalls \cup sendCalls # {}

\* The rule set the call began with, as the dry run would see it.
DryRunOf(c) == testMessage(c.snapshot, c.message)

\* C9: a returned call that skipped no rule for cooldown agrees with the dry
\* run on the rule set and message it began with: the same matched rule ids
\* in the same order, and one preview entry per executed action with the
\* same rule id and type.
C9_DryRunAgrees ==
    \A p \in Procs :
        LET c == call[p]
            t == DryRunOf(c)
        IN  (c.pc = "done" /\ NoCooldownSkip(c)) =>
              /\ Len(t.matchedRules) = Len(MatchedEntries(c))
              /\ \A k \in 1..Len(t.matchedRules) :
                     t.matchedRules[k].id = MatchedEntries(c)[k].id
              /\ Len(t.actionsPreview) = Len(c.executedActions)
              /\ \A k \in 1..Len(t.actionsPreview) :
                     /\ t.actionsPreview[k].ruleId = c.executedActions[k].ruleId
                     /\ t.actionsPreview[k].type = c.executedActions[k].type

\* A call has returned with a matched rule that stopped the chain ahead of
\* another enabled rule, and with a failed action among its outcomes.
C9_Witness ==
    \E p \in Procs :
        LET c == call[p]
        IN  /\ c.pc = "done"
            /\ NoCooldownSkip(c)
            /\ Len(MatchedEntries(c)) >= 1
            /\ Len(c.evaluatedRules) < Len(c.sortedRules)
            /\ \E k \in 1..Len(c.executedActions) :
                   ~ c.executedActions[k].success

\* The working order of the rule set that was cached when the call began.
SnapshotOrder(c) ==
    IF "rules" \in DOMAIN c.snapshot THEN SortedRules(c.snapshot.rules)
    ELSE <<>>

\* The cache holds nothing, the stored seed, or one saved document whole.
CacheIsWhole ==
    \/ rulesCache = NoCache
    \/ rulesCache = [version |-> 1, rules |-> <<>>]
    \/ \E text \in YamlTexts :
           ~ text.syntaxError /\ rulesCache = text.doc

\* C10: everything a call evaluates comes from the rule set cached when it
\* began: its entries follow that set's working order, with the matcher's
\* verdict and the action types of that set's rules, whatever saveRules and
\* reloadRules do meanwhile; and the cache is always one whole rule set.
C10_OneSnapshot ==
    /\ CacheIsWhole
    /\ \A p \in Procs :
        LET c == call[p]
            w == SnapshotOrder(c)
        IN  Started(c) =>
              /\ Len(c.evaluatedRules) <= Len(w)
              /\ \A k \in 1..Len(c.evaluatedRules) :
                   LET e == c.evaluatedRules[k]
                       out == OutcomesOf(c, e.id)
                   IN  /\ e.id = w[k].id
                       /\ e.name = w[k].name
                       /\ e.matched =>
                              /\ matchRule(w[k], c.message).matches
                              /\ e.reason = matchRule(w[k], c.message).reason
                              /\ Len(out) = Len(w[k].actions)
                              /\ \A j \in 1..Len(out) :
                                     out[j].type = w[k].actions[j].type
                       /\ (~ e.matched /\ ~ ("skippedCooldown" \in DOMAIN e))
                              => /\ ~ matchRule(w[k], c.message).matches
                                 /\ e.reason = matchRule(w[k], c.message).reason

\* A call is suspended at its second rule or later while the cache has been
\* replaced, since it began, by a rule set with another rule at that place.
C10_Witness ==
    \E p \in Procs :
        LET c == call[p]
        IN  /\ InFlight(c)
            /\ c.idx >= 2
            /\ Admin.pc = "idle"
            /\ "rules" \in DOMAIN rulesCache
            /\ rulesCache # c.snapshot
            /\ LET live == SortedRules(rulesCache.rules)
               IN  c.idx > Len(live) \/ live[c.idx] # c.sortedRules[c.idx]

\* The rule set is not a list of rules each with its required fields.
Malformed(cache) ==
    \/ ~ Has(cache, "rules")
    \/ \E k \in 1..Len(cache.rules) :
           ~ \A f \in {"id", "name", "enabled", "match", "actions"} :
                 Has(cache.rules[k], f)

\* C11: a processMessage call that finds a malformed rule set in the cache
\* does not throw and returns empty evaluatedRules and executedActions.
C11_MalformedIsNoRules ==
    \A p \in Procs :
        LET c == call[p]
        IN  (Started(c) /\ Malformed(c.snapshot)) =>
              /\ c.pc # "threw"
              /\ c.evaluatedRules = <<>>
              /\ c.executedActions = <<>>

\* The records of the RuleFire log and the external calls made by call c.
EffectsOf(c) ==
    <<FiresOf(c),
      {h \in haCalls : h.site.call = c.callId},
      {m \in sendCalls : m.site.call = c.callId}>>

\* C12: a store operation that fails during processMessage makes the call
\* reject; the failing step changes no table and makes no external call, and
\* from then on the call adds no evaluation, no action, no RuleFire record
\* and no external call.  A failing fetch makes reloadRules reject and
\* leaves the cache as it was.
C12_StoreErrorsPropagate ==
    [][/\ \A p \in Procs :
             /\ (call[p].failed = "store")' => (call[p].pc = "threw")'
             /\ (call[p].pc # "threw" /\ (call[p].pc = "threw")'
                    /\ (call[p].callId)' = call[p].callId) =>
                   /\ UNCHANGED <<cooldown, fires, haCalls, sendCalls>>
                   /\ (call[p].evaluatedRules)' = call[p].evaluatedRules
                   /\ (call[p].executedActions)' = call[p].executedActions
             /\ (call[p].pc = "threw"
                    /\ (call[p].callId)' = call[p].callId) =>
                   /\ call'[p] = call[p]
                   /\ EffectsOf(call[p])' = EffectsOf(call[p])
       /\ (Admin' # Admin /\ Has(Admin', "threw")) =>
             UNCHANGED <<rulesCache, ruleset>>]_vars

\* A call has rejected on a store failure after it fired a rule, with a rule
\* of its working order still ahead, and a reloadRules has rejected.
C12_Witness ==
    /\ \E p \in Procs :
        LET c == call[p]
        IN  /\ c.pc = "threw"
            /\ c.failed = "store"
            /\ FiresOf(c) # <<>>
            /\ c.idx < Len(c.sortedRules)
            /\ ~ StopsChain(c.sortedRules[c.idx])
    /\ Has(Admin, "threw")
    /\ Admin.threw = "reloadRules"

\* C13: the stored version goes up by one exactly in the store update of a
\* saveRules call whose text passed validation, the call that then returns
\* valid:true, and in no other step; a saveRules call that returns an
\* invalid result leaves the stored text, parsed form and version and the
\* cache unchanged; a saveRules call whose store update fails leaves the
\* cache unchanged.
C13_VersionCountsSaves ==
    [][/\ IF Admin.pc = "idle" /\ Admin'.pc = "save"
          THEN /\ ruleset'.version = ruleset.version + 1
               /\ Admin'.validation.valid
          ELSE ruleset' = ruleset
       /\ (Admin.pc = "save" /\ Admin'.pc = "idle") =>
             /\ Has(Admin', "returned")
             /\ Admin'.returned.valid
       /\ (nadmin' # nadmin /\ Has(Admin', "returned")) =>
             /\ ~ Admin'.returned.valid
             /\ UNCHANGED <<ruleset, rulesCache>>
       /\ (nadmin' # nadmin /\ Has(Admin', "threw")) =>
             UNCHANGED rulesCache]_vars

\* One saveRules call has returned valid:true and a later one has returned
\* an invalid result: the version is the seed's plus one and the store and
\* the cache hold the valid text.
C13_Witness ==
    /\ nadmin = 2
    /\ Admin.pc = "idle"
    /\ Has(Admin, "returned")
    /\ ~ Admin.returned.valid
    /\ ruleset.version = SeedRuleset.version + 1
    /\ ruleset.yaml_text # SeedRuleset.yaml_text
    /\ rulesCache = JsonParse(ruleset.parsed_json)
    /\ rulesCache.rules # <<>>

\* No two rules of the rule set share an id.
NoDuplicateIds(cache) ==
    Has(cache, "rules") =>
        \A i, j \in 1..Len(cache.rules) :
            i # j => cache.rules[i].id # cache.rules[j].id

\* The ids that two rules of the text's document share.
SharedIds(text) ==
    {YamlLoad(text).rules[i].id : i \in
        {i \in 1..Len(YamlLoad(text).rules) :
            \E j \in 1..Len(YamlLoad(text).rules) :
                i # j /\ YamlLoad(text).rules[i].id
                             = YamlLoad(text).rules[j].id}}

\* C14: neither the cache nor the stored parsed form ever holds two rules
\* with the same id, and validation of every text in which two rules share
\* an id returns valid:false with an error whose message names that id.
C14_UniqueRuleIds ==
    /\ NoDuplicateIds(rulesCache)
    /\ NoDuplicateIds(JsonParse(ruleset.parsed_json))
    /\ \A text \in YamlTexts :
           (YamlParses(text) /\ SharedIds(text) # {}) =>
               /\ ~ validateYaml(text).valid
               /\ \A id \in SharedIds(text) :
                      \E n \in 1..Len(validateYaml(text).errors) :
                          validateYaml(text).errors[n].message
                              = <<"Duplicate rule ID: ", id>>

\* A saveRules call with a text in which two rules share an id has returned
\* the duplicate-id error while the cache holds the rule set saved before.
C14_Witness ==
    /\ Admin.pc = "idle"
    /\ Has(Admin, "returned")
    /\ \E n \in 1..Len(Admin.returned.errors) :
           Admin.returned.errors[n].message = <<"Duplicate rule ID: ", "r1">>
    /\ Has(rulesCache, "rules")
    /\ Len(rulesCache.rules) >= 2
    /\ rulesCache = JsonParse(ruleset.parsed_json)

\* C15: validateYaml returns a result for every text; valid is true exactly
\* when errors is empty, normalizedYaml is present exactly when valid, and a
\* text that does not parse gives exactly one error and ruleCount 0.
C15_ValidateTotal ==
    Has(Admin, "text") =>
        /\ ~ Has(Admin, "threw")
        /\ Admin.returned = validateYaml(Admin.text)
        /\ Admin.returned.valid = (Admin.returned.errors = <<>>)
        /\ Has(Admin.returned, "normalizedYaml") = Admin.returned.valid
        /\ ~ YamlParses(Admin.text) =>
               /\ Len(Admin.returned.errors) = 1
               /\ Admin.returned.ruleCount = 0

\* The inputs and the result of the matchRule call, once it has returned.
Matched == Has(testResult, "result")

MRule == testResult.rule

MMessage == testResult.message

\* The members of a list field of the match block, none when the field or
\* its block is absent.
ListOf(rule, block, field) ==
    IF Has(rule.match, block) /\ Has(rule.match[block], field)
    THEN Range(rule.match[block][field]) ELSE {}

\* The event of the message and the events of the rule, with the defaults.
EventOf(message) ==
    IF "event" \in DOMAIN message THEN message.event ELSE "MESSAGES_UPSERT"

EventsOf(rule) ==
    IF "events" \in DOMAIN rule.match THEN Range(rule.match.events)
    ELSE {"MESSAGES_UPSERT"}

\* The stages as the claims state them, each TRUE when it passes.
ChatTypePasses(rule, message) ==
    \/ ~ Has(rule.match, "chat")
    \/ ~ Has(rule.match.chat, "type")
    \/ rule.match.chat.type \in {"any", message.chatType}

ChatIdsPass(rule, message) ==
    \/ ListOf(rule, "chat", "ids") = {}
    \/ message.chatId \in ListOf(rule, "chat", "ids")

SenderIdsPass(rule, message) ==
    \/ ListOf(rule, "sender", "ids") = {}
    \/ message.senderId \in ListOf(rule, "sender", "ids")

SenderNumbersPass(rule, message) ==
    \/ ListOf(rule, "sender", "numbers") = {}
    \/ \E n \in ListOf(rule, "sender", "numbers") :
           extractPhoneNumber(n) = extractPhoneNumber(message.senderId)

TextPasses(rule, message) ==
    \/ ~ Has(rule.match, "text")
    \/ ListOf(rule, "text", "patterns") = {}
    \/ TextMatched(rule, message)

\* The event stage with an empty events list read as no constraint.
EventPassesEmptyFree(rule, message) ==
    \/ EventsOf(rule) = {}
    \/ EventOf(message) \in EventsOf(rule)

\* The event stage: the events of the rule hold the event of the message.
EventPasses(rule, message) == EventOf(message) \in EventsOf(rule)

\* The result the six stages give when checked in their fixed order, with
\* the event stage's verdict handed in.
StagedResult(eventPasses, rule, message) ==
    LET failed ==
            <<~ eventPasses, ~ ChatTypePasses(rule, message),
              ~ ChatIdsPass(rule, message), ~ SenderIdsPass(rule, message),
              ~ SenderNumbersPass(rule, message), ~ TextPasses(rule, message)>>
        reasons ==
            <<"event not in list", "chatType differs",
              "chatId not in allowed list", "senderId not in allowed list",
              "senderPhone not in allowed list", "text did not match">>
        first == IF \E k \in 1..6 : failed[k]
                 THEN CHOOSE k \in 1..6 :
                          failed[k] /\ \A j \in 1..(k - 1) : ~ failed[j]
                 ELSE 0
    IN  [matches |-> first = 0,
         reason |-> IF first = 0 THEN <<>> ELSE <<reasons[first]>>]

\* The result of the call agrees with the staged result.
AgreesWith(staged) ==
    /\ testResult.result.matches = staged.matches
    /\ ~ staged.matches => testResult.result.reason = staged.reason

\* C16 as stated: an absent or empty list imposes no constraint at any
\* stage, the event stage included.
C16_StagesEmptyFree ==
    Matched =>
        AgreesWith(StagedResult(EventPassesEmptyFree(MRule, MMessage),
                                MRule, MMessage))

\* C16: matchRule matches exactly when the six stages pass, the first
\* failing stage in the order event, chat type, chat ids, sender ids, sender
\* numbers, text gives the reason; an absent or empty list of chat ids,
\* sender ids, sender numbers or patterns imposes no constraint, absent
\* events stand for the default event and an empty events list matches no
\* message; a rule with an empty match block matches every message of the
\* default event.
C16_Stages ==
    Matched =>
        /\ AgreesWith(StagedResult(EventPasses(MRule, MMessage),
                                   MRule, MMessage))
        /\ (MRule.match = <<>> /\ EventOf(MMessage) = "MESSAGES_UPSERT")
               => testResult.result.matches

\* A call has returned no match for the reason of the sender-ids stage on
\* inputs whose sender-numbers and text stages fail as well, the chat-ids
\* stage being configured with an empty list.
C16_Witness ==
    /\ Matched
    /\ ~ testResult.result.matches
    /\ testResult.result.reason = <<"senderId not in allowed list">>
    /\ ~ SenderNumbersPass(MRule, MMessage)
    /\ ~ TextPasses(MRule, MMessage)
    /\ Has(MRule.match, "chat")
    /\ Has(MRule.match.chat, "ids")
    /\ MRule.match.chat.ids = <<>>

\* The rule constrains nothing but the named block of its match block.
OnlyBlock(rule, block) == DOMAIN rule.match \subseteq {block}

\* C17: a rule matches only a message whose event, the default when it
\* carries none, is among the rule's events, the default alone when the
\* rule declares none; a rule that constrains nothing else matches exactly
\* those messages.
C17_EventMembership ==
    Matched =>
        /\ testResult.result.matches
               => EventOf(MMessage) \in EventsOf(MRule)
        /\ OnlyBlock(MRule, "events") =>
               testResult.result.matches
                   = (EventOf(MMessage) \in EventsOf(MRule))

\* A rule declaring two events has matched a message carrying the second,
\* which is not the default.
C17_Witness ==
    /\ Matched
    /\ testResult.result.matches
    /\ Has(MRule.match, "events")
    /\ Len(MRule.match.events) = 2
    /\ Has(MMessage, "event")
    /\ MMessage.event = MRule.match.events[2]
    /\ MMessage.event # "MESSAGES_UPSERT"

\* The sender passes the ids stage / the numbers stage of the rule.
InSenderIds(rule, message) ==
    message.senderId \in ListOf(rule, "sender", "ids")

InSenderNumbers(rule, message) ==
    \E n \in ListOf(rule, "sender", "numbers") :
        DigitsOnly(BeforeAt(n)) = DigitsOnly(BeforeAt(message.senderId))

\* C18: a rule with both sender ids and sender numbers matches only a
\* message whose senderId is a member of ids as written and whose digits
\* equal the digits of an entry of numbers; a rule that constrains nothing
\* else matches exactly those messages of the default event.
C18_SenderBoth ==
    (/\ Matched
     /\ ListOf(MRule, "sender", "ids") # {}
     /\ ListOf(MRule, "sender", "numbers") # {}) =>
        /\ testResult.result.matches =>
               /\ InSenderIds(MRule, MMessage)
               /\ InSenderNumbers(MRule, MMessage)
        /\ (OnlyBlock(MRule, "sender")
               /\ EventOf(MMessage) = "MESSAGES_UPSERT") =>
               testResult.result.matches
                   = (InSenderIds(MRule, MMessage)
                          /\ InSenderNumbers(MRule, MMessage))

\* A rule with both lists has refused a sender that is a member of ids but
\* whose digits are those of no entry of numbers.
C18_Witness ==
    /\ Matched
    /\ OnlyBlock(MRule, "sender")
    /\ ListOf(MRule, "sender", "numbers") # {}
    /\ InSenderIds(MRule, MMessage)
    /\ ~ InSenderNumbers(MRule, MMessage)
    /\ ~ testResult.result.matches
    /\ testResult.result.reason = <<"senderPhone not in allowed list">>

\* The pattern source has the unbalanced bracket.
Unbalanced(pattern) == \E k \in 1..Len(pattern) : pattern[k] = "["

\* Some pattern of the rule that compiles is found in the raw text, letter
\* case aside.
SomeValidPatternFound(rule, message) ==
    \E pattern \in ListOf(rule, "text", "patterns") :
        /\ ~ Unbalanced(pattern)
        /\ Includes(ToLowerCase(message.text), ToLowerCase(pattern))

\* C19: in regex mode matchRule returns a result whatever the patterns; the
\* rule matches only if a pattern that compiles is found in the raw text,
\* letter case aside, and a rule that constrains nothing else matches
\* exactly then: a pattern that does not compile matches nothing and does
\* not keep the other patterns from being tried.
C19_InvalidRegex ==
    (/\ Matched
     /\ ListOf(MRule, "text", "patterns") # {}
     /\ Has(MRule.match.text, "mode")
     /\ MRule.match.text.mode = "regex") =>
        /\ Has(testResult.result, "matches")
        /\ testResult.result.matches => SomeValidPatternFound(MRule, MMessage)
        /\ (OnlyBlock(MRule, "text")
               /\ EventOf(MMessage) = "MESSAGES_UPSERT") =>
               testResult.result.matches
                   = SomeValidPatternFound(MRule, MMessage)

\* A rule whose first pattern does not compile has matched by its second
\* pattern, written in the other letter case than the text.
C19_Witness ==
    /\ Matched
    /\ testResult.result.matches
    /\ Has(MRule.match, "text")
    /\ Has(MRule.match.text, "mode")
    /\ MRule.match.text.mode = "regex"
    /\ Len(MRule.match.text.patterns) = 2
    /\ Unbalanced(MRule.match.text.patterns[1])
    /\ ~ Includes(MMessage.text, MRule.match.text.patterns[2])

\* The rule with every pattern normalised, the message with its text
\* normalised.
NormalisedRule(rule) ==
    [rule EXCEPT !.match.text.patterns =
        [k \in 1..Len(@) |-> normaliseText(@[k])]]

NormalisedMessage(message) ==
    [message EXCEPT !.text = normaliseText(@)]

\* C20: in contains and starts_with modes the result for a rule and a
\* message is the result for the rule with its patterns normalised and the
\* message with its text normalised, and normalising a pattern or a text
\* twice gives what normalising it once gives.
C20_NormalisationInvariant ==
    (/\ Matched
     /\ ListOf(MRule, "text", "patterns") # {}
     /\ TextMode(MRule) \in {"contains", "starts_with"}) =>
        /\ testResult.result.matches
               = matchRule(NormalisedRule(MRule),
                           NormalisedMessage(MMessage)).matches
        /\ normaliseText(normaliseText(MMessage.text))
               = normaliseText(MMessage.text)
        /\ \A pattern \in ListOf(MRule, "text", "patterns") :
               normaliseText(normaliseText(pattern)) = normaliseText(pattern)

\* A contains rule has matched a text that does not hold the pattern as
\* written: pattern and text differ from their normal forms in letter case
\* and in white space.
C20_Witness ==
    /\ Matched
    /\ testResult.result.matches
    /\ Has(MRule.match, "text")
    /\ OnlyBlock(MRule, "text")
    /\ TextMode(MRule) = "contains"
    /\ Len(MRule.match.text.patterns) = 1
    /\ Len(MRule.match.text.patterns[1]) = MaxLen
    /\ normaliseText(MRule.match.text.patterns[1])
           = <<"a", " ", "b">>
    /\ MRule.match.text.patterns[1] # <<"a", " ", "b">>
    /\ MMessage.text = <<"a", "\t", "B">>

\* The ids of the rules of a cached rule set whose enabled flag is false.
DisabledIds(cache) ==
    IF CacheHasRules(cache)
    THEN {cache.rules[k].id : k \in {j \in 1..Len(cache.rules) :
                                        ~ cache.rules[j].enabled}}
    ELSE {}

\* The rules of a cached rule set whose enabled flag is true.
EnabledRules(cache) ==
    IF CacheHasRules(cache)
    THEN {r \in Range(cache.rules) : r.enabled}
    ELSE {}

\* Nothing of the call concerns a rule that was disabled in the rule set the
\* call began with: no position of the loop, no evaluation entry, no executed
\* action, no external call, no RuleFire record.
LeavesDisabledAlone(c) ==
    LET off == DisabledIds(c.snapshot)
    IN  /\ InFlight(c) => CurrentRule(c).id \notin off
        /\ \A k \in 1..Len(c.evaluatedRules) :
               c.evaluatedRules[k].id \notin off
        /\ \A k \in 1..Len(c.executedActions) :
               c.executedActions[k].ruleId \notin off
        /\ \A x \in haCalls \cup sendCalls :
               x.site.call = c.callId => x.site.ruleId \notin off
        /\ \A n \in 1..Len(fires) :
               fires[n].message_id = c.callId => fires[n].rule_id \notin off

\* A returned call has an entry for every enabled rule of its rule set, or an
\* entry of an enabled rule that stopped the chain.
OnlyEnabledStops(c) ==
    \A r \in EnabledRules(c.snapshot) :
        \/ \E k \in 1..Len(c.evaluatedRules) : c.evaluatedRules[k].id = r.id
        \/ \E k \in 1..Len(c.evaluatedRules) :
               /\ c.evaluatedRules[k].matched
               /\ c.evaluatedRules[k].stoppedChain
               /\ c.evaluatedRules[k].id \notin DisabledIds(c.snapshot)

\* The dry run reports nothing of a disabled rule of the cached rule set and
\* reports every enabled rule that matches the message, up to one that stops
\* the chain.
DryRunLeavesDisabledAlone(t, cache) ==
    /\ \A k \in 1..Len(t.result.matchedRules) :
           t.result.matchedRules[k].id \notin DisabledIds(cache)
    /\ \A k \in 1..Len(t.result.actionsPreview) :
           t.result.actionsPreview[k].ruleId \notin DisabledIds(cache)
    /\ \A r \in EnabledRules(cache) :
           matchRule(r, t.message).matches =>
               \/ \E k \in 1..Len(t.result.matchedRules) :
                      t.result.matchedRules[k].id = r.id
               \/ \E r2 \in EnabledRules(cache) :
                      /\ DeclaredStop(r2)
                      /\ \E k \in 1..Len(t.result.matchedRules) :
                             t.result.matchedRules[k].id = r2.id

\* C21: a rule whose enabled flag is false in the cached rule set is never
\* evaluated: a processMessage call has no loop position, evaluation entry,
\* executed action, external call or RuleFire record for it, writes no
\* cooldown row for it, and is not stopped by it; a testMessage call reports
\* neither the rule nor its actions and is not stopped by it.
C21_DisabledNeverEvaluated ==
    [][/\ \A p \in Procs :
              /\ LeavesDisabledAlone(call[p])'
              /\ call'[p].pc = "done" => OnlyEnabledStops(call[p])'
              /\ (call'[p] # call[p] /\ InFlight(call[p])) =>
                     \A e \in cooldown' \ cooldown :
                         e.rule_id \notin DisabledIds(call[p].snapshot)
       /\ testResult' # testResult =>
              DryRunLeavesDisabledAlone(testResult', rulesCache)]_vars

\* A call returned and a dry run reported on a rule set whose first rule by
\* priority is disabled, matches every message, is rate-limited and stops
\* the chain: both went on to the enabled rules behind it.
C21_Witness ==
    /\ CacheHasRules(rulesCache)
    /\ \E k \in 1..Len(rulesCache.rules) :
           LET r == rulesCache.rules[k]
           IN  /\ ~ r.enabled
               /\ HasCooldown(r)
               /\ DeclaredStop(r)
               /\ \A j \in 1..Len(rulesCache.rules) :
                      DeclaredPriority(r) <= DeclaredPriority(rulesCache.rules[j])
               /\ \A m \in Messages : matchRule(r, m).matches
    /\ \E p \in Procs :
           /\ call[p].pc = "done"
           /\ call[p].snapshot = rulesCache
           /\ MatchedEntries(call[p]) # <<>>
           /\ cooldown # {}
    /\ "result" \in DOMAIN testResult
    /\ testResult.result = testMessage(rulesCache, testResult.message)
    /\ testResult.result.matchedRules # <<>>

\* An unexpired row of wa_cooldown exists for the rule the call is at and
\* the chat of its message.
ActiveRow(c) ==
    \E e \in cooldown :
        /\ e.rule_id = CurrentRule(c).id
        /\ e.scope_key = c.message.chatId
        /\ e.expires_at > now

\* The entry recorded for a rule skipped for cooldown.
SkippedEntry(rule) ==
    [id |-> rule.id, name |-> rule.name, matched |-> FALSE,
     reason |-> <<"on cooldown">>, skippedCooldown |-> TRUE]

\* C22: when the cooldown lookup of a call finds the rule on cooldown for
\* the message's chat, the call records exactly one entry {matched:false,
\* reason 'on cooldown', skippedCooldown:true} for it, executes no action,
\* writes no RuleFire record, leaves wa_cooldown as it is, and moves to the
\* next rule of the working order (or returns after the last one) whatever
\* the skipped rule's stop_on_match; a returned call has no action outcome
\* and no RuleFire record for a rule it reports as skipped.
C22_CooldownSkip ==
    [][\A p \in Procs :
          LET c == call[p]
              d == call'[p]
          IN  /\ (c.pc = "select" /\ d # c /\ ActiveRow(c)) =>
                     /\ d.evaluatedRules =
                            Append(c.evaluatedRules,
                                   SkippedEntry(CurrentRule(c)))
                     /\ d.executedActions = c.executedActions
                     /\ UNCHANGED <<cooldown, fires, haCalls, sendCalls>>
                     /\ d.idx = c.idx + 1
                     /\ d.pc = IF c.idx < Len(c.sortedRules)
                               THEN "delete" ELSE "done"
              /\ d.pc = "done" =>
                     \A k \in 1..Len(d.evaluatedRules) :
                         "skippedCooldown" \in DOMAIN d.evaluatedRules[k] =>
                             /\ d.evaluatedRules[k] =
                                    SkippedEntry(d.sortedRules[k])
                             /\ \A n \in 1..Len(d.executedActions) :
                                    d.executedActions[n].ruleId
                                        # d.evaluatedRules[k].id
                             /\ \A n \in 1..Len(fires') :
                                    ~ (fires'[n].message_id = d.callId
                                       /\ fires'[n].rule_id
                                              = d.evaluatedRules[k].id)
                             /\ \A x \in haCalls' \cup sendCalls' :
                                    ~ (x.site.call = d.callId
                                       /\ x.site.ruleId
                                              = d.evaluatedRules[k].id)]_vars

\* A returned call skipped a rule for cooldown that matches its message and
\* stops on match, and went on to evaluate the rule behind it; the row that
\* caused the skip is still in wa_cooldown.
C22_Witness ==
    \E p \in Procs :
        LET c == call[p]
        IN  /\ c.pc = "done"
            /\ \E k \in 1..Len(c.evaluatedRules) :
                   /\ c.evaluatedRules[k] = SkippedEntry(c.sortedRules[k])
                   /\ DeclaredStop(c.sortedRules[k])
                   /\ matchRule(c.sortedRules[k], c.message).matches
                   /\ k < Len(c.evaluatedRules)
                   /\ \E e \in cooldown :
                          /\ e.rule_id = c.sortedRules[k].id
                          /\ e.scope_key = c.message.chatId

\* The cooldown_seconds field as declared: present and positive.
DeclaredCooldown(rule) ==
    "cooldown_seconds" \in DOMAIN rule /\ rule.cooldown_seconds > 0

\* The call has persisted a RuleFire record for the rule.
FirePersisted(c, ruleId) ==
    \E n \in 1..Len(fires) :
        fires[n].message_id = c.callId /\ fires[n].rule_id = ruleId

\* The external calls the call has made for the rule.
CallsFor(c, ruleId) ==
    {x \in haCalls \cup sendCalls :
        x.site.call = c.callId /\ x.site.ruleId = ruleId}

\* The outcomes so far are those of the first actions of the rule, in the
\* declared order.
InDeclaredOrder(rule, results) ==
    /\ Len(results) <= Len(rule.actions)
    /\ \A k \in 1..Len(results) : results[k].type = rule.actions[k].type

\* C23: for a matched rule the call attempts the actions one after another
\* in the declared order, then appends the RuleFire record holding all the
\* outcomes, then writes the cooldown row for (rule id, chat id) when the
\* rule is rate-limited, and only then leaves the rule: no action of a
\* later rule starts before the record is persisted and the cooldown set.
C23_FireSequence ==
    [][\A p \in Procs :
          LET c == call[p]
              d == call'[p]
              rule == CurrentRule(c)
          IN  (d # c) =>
                /\ c.pc = "action" =>
                     /\ Len(c.actionResults) = c.act - 1
                     /\ InDeclaredOrder(rule, c.actionResults)
                     /\ ~ FirePersisted(c, rule.id)
                     /\ \A x \in CallsFor(c, rule.id) : x.site.act < c.act
                     /\ \A x \in CallsFor(c, rule.id)' \ CallsFor(c, rule.id) :
                            x.site.act = c.act
                     /\ \A j \in 1..(c.idx - 1) :
                            CallsFor(c, c.sortedRules[j].id) # {} =>
                                FirePersisted(c, c.sortedRules[j].id)
                     /\ d.idx = c.idx
                     /\ d.actionResults # c.actionResults =>
                            /\ Len(d.actionResults) = c.act
                            /\ SubSeq(d.actionResults, 1, c.act - 1)
                                   = c.actionResults
                     /\ d.pc = IF c.act < Len(rule.actions)
                               THEN "action" ELSE "logfire"
                     /\ UNCHANGED <<fires, cooldown>>
                /\ c.pc = "logfire" =>
                     /\ Len(c.actionResults) = Len(rule.actions)
                     /\ InDeclaredOrder(rule, c.actionResults)
                     /\ ~ FirePersisted(c, rule.id)
                     /\ FirePersisted(c, rule.id)'
                     /\ fires'[Len(fires')].actions_executed = c.actionResults
                     /\ UNCHANGED <<cooldown, haCalls, sendCalls>>
                     /\ DeclaredCooldown(rule) =>
                            d.pc = "setcd" /\ d.idx = c.idx
                /\ c.pc = "setcd" =>
                     /\ FirePersisted(c, rule.id)
                     /\ DeclaredCooldown(rule)
                     /\ [rule_id |-> rule.id, scope_key |-> c.message.chatId,
                         expires_at |-> now + rule.cooldown_seconds]
                            \in cooldown'
                     /\ UNCHANGED <<fires, haCalls, sendCalls>>]_vars

\* A call attempted both actions of a rate-limited rule, the first one
\* refused, persisted the record with both outcomes, set the cooldown, and
\* is now at the first action of the next rule.
C23_Witness ==
    \E p \in Procs :
        LET c == call[p]
        IN  /\ c.pc = "action"
            /\ c.idx = 2
            /\ c.act = 1
            /\ DeclaredCooldown(c.sortedRules[1])
            /\ Len(c.sortedRules[1].actions) = 2
            /\ \E n \in 1..Len(fires) :
                   /\ fires[n].message_id = c.callId
                   /\ fires[n].rule_id = c.sortedRules[1].id
                   /\ Len(fires[n].actions_executed) = 2
                   /\ ~ fires[n].actions_executed[1].success
            /\ \E e \in cooldown :
                   /\ e.rule_id = c.sortedRules[1].id
                   /\ e.scope_key = c.message.chatId
                   /\ e.expires_at > now

\* The step writes wa_cooldown other than by purging: a row is added or the
\* expiry of a key changes.
CooldownWritten == ~ (cooldown' \subseteq cooldown)

\* The rows of wa_cooldown other than the one for (rule id, chat id).
OtherRows(rows, ruleId, scopeKey) ==
    {e \in rows : ~ (e.rule_id = ruleId /\ e.scope_key = scopeKey)}

\* The part of C24 on writes: a step of a call writes wa_cooldown exactly
\* when it is the setCooldown of a rule that matched the call's message and
\* declares cooldown_seconds > 0; a matched rule reaches setCooldown exactly
\* when it declares cooldown_seconds > 0, whatever the outcomes of its
\* actions; the write touches only the row of (rule id, chat id).
WritesOnlyForMatchedRateLimited ==
    /\ CooldownWritten => \E p \in Procs : call[p].pc = "setcd"
                                             /\ call'[p] # call[p]
    /\ \A p \in Procs :
          LET c == call[p]
              d == call'[p]
              rule == CurrentRule(c)
          IN  (d # c) =>
                /\ c.pc = "logfire" =>
                       (d.pc = "setcd") = DeclaredCooldown(rule)
                /\ d.pc = "setcd" => c.pc = "logfire"
                /\ c.pc = "setcd" =>
                     /\ matchRule(rule, c.message).matches
                     /\ DeclaredCooldown(rule)
                     /\ Len(c.actionResults) = Len(rule.actions)
                     /\ \E e \in cooldown' :
                            e.rule_id = rule.id
                                /\ e.scope_key = c.message.chatId
                     /\ OtherRows(cooldown', rule.id, c.message.chatId)
                            = OtherRows(cooldown, rule.id, c.message.chatId)

\* C24 as stated: cooldown rows are written exactly for matched rate-limited
\* rules, and a rule with cooldown_seconds absent or 0 is never reported
\* with skippedCooldown:true.
C24_NeverSkippedWithoutCooldown ==
    [][/\ WritesOnlyForMatchedRateLimited
       /\ \A p \in Procs :
              \A k \in 1..Len(call'[p].evaluatedRules) :
                  "skippedCooldown" \in DOMAIN call'[p].evaluatedRules[k]
                      => DeclaredCooldown(call'[p].sortedRules[k])]_vars

\* C24 (amended): cooldown rows are written exactly for matched
\* rate-limited rules, independent of action success; a rule with
\* cooldown_seconds absent or 0 never creates or changes a row, and any rule
\* is reported with skippedCooldown:true exactly when the lookup finds an
\* unexpired row for (its id, the chat), which for a rule without cooldown
\* can only be a row left by a rule of an earlier rule set with the same id.
C24_CooldownWrites ==
    [][/\ WritesOnlyForMatchedRateLimited
       /\ \A p \in Procs :
              LET c == call[p]
                  d == call'[p]
              IN  (c.pc = "select" /\ d # c) =>
                      (/\ Len(d.evaluatedRules) = Len(c.evaluatedRules) + 1
                       /\ "skippedCooldown" \in
                              DOMAIN d.evaluatedRules[Len(d.evaluatedRules)])
                          = ActiveRow(c)]_vars

\* A rate-limited rule matched, one of its actions failed, and the call has
\* just written its cooldown row; another call reports a rule that declares
\* no positive cooldown as skipped.
C24_Witness ==
    /\ \E p \in Procs :
           LET c == call[p]
           IN  /\ Len(c.evaluatedRules) >= 1
               /\ c.evaluatedRules[1].matched
               /\ DeclaredCooldown(c.sortedRules[1])
               /\ \E n \in 1..Len(c.executedActions) :
                      ~ c.executedActions[n].success
               /\ \E e \in cooldown :
                      /\ e.rule_id = c.sortedRules[1].id
                      /\ e.scope_key = c.message.chatId
                      /\ e.expires_at = now + c.sortedRules[1].cooldown_seconds
    /\ \E p \in Procs :
           LET c == call[p]
           IN  \E k \in 1..Len(c.evaluatedRules) :
                   /\ "skippedCooldown" \in DOMAIN c.evaluatedRules[k]
                   /\ ~ DeclaredCooldown(c.sortedRules[k])

\* ------------------------------------------------------ cooldown tracker
\* Two rate-limited catch-all rules, the first with the longer cooldown and
\* letting the chain continue.
RulesSlow ==
    << [id |-> "r1", name |-> "first", enabled |-> TRUE, priority |-> 1,
        stop_on_match |-> FALSE, cooldown_seconds |-> 2,
        match |-> <<>>, actions |-> <<ReplyOk>>],
       [id |-> "r2", name |-> "second", enabled |-> TRUE, priority |-> 2,
        cooldown_seconds |-> 1, match |-> <<>>, actions |-> <<ReplyOk>>] >>

\* The first rule again, with the shorter cooldown.
RulesFast ==
    << [id |-> "r1", name |-> "first", enabled |-> TRUE, priority |-> 1,
        stop_on_match |-> FALSE, cooldown_seconds |-> 1,
        match |-> <<>>, actions |-> <<ReplyOk>>] >>

CooldownTexts == { Text("slow", RulesSlow), Text("fast", RulesFast) }

\* One message in chat x and one in chat y.
ChatMessages ==
    { [chatId |-> "x", chatType |-> "direct", senderId |-> Sender,
       text |-> <<"a">>],
      [chatId |-> "y", chatType |-> "direct", senderId |-> Sender,
       text |-> <<"a">>] }

\* The engine under concurrent deliveries for two chats, with rule sets
\* whose rules are all rate-limited.
NextCooldown ==
    \/ \E text \in CooldownTexts : saveRulesUpdate("a1", text)
    \/ saveRulesAssign("a1")
    \/ \E p \in Procs, message \in ChatMessages : processMessage(p, message)
    \/ \E p \in Procs : isOnCooldownDelete(p)
    \/ \E p \in Procs : isOnCooldownSelect(p)
    \/ \E p \in Procs : executeActions(p, TRUE)
    \/ \E p \in Procs : logRuleFire(p)
    \/ \E p \in Procs : setCooldown(p)
    \/ Tick

SpecCooldown == Init /\ [][NextCooldown]_vars

\* C25: wa_cooldown never holds two rows for one (rule id, scope key),
\* whatever the interleaving of the calls; setCooldown leaves exactly one row
\* for its key, with expiry now + seconds whatever the row held before
\* (neither added to the old expiry nor kept when the old one was later),
\* and leaves the rows of the other keys as they were.
C25_UpsertUnique ==
    [][/\ \A e1, e2 \in cooldown' :
              (e1.rule_id = e2.rule_id /\ e1.scope_key = e2.scope_key)
                  => e1 = e2
       /\ \A p \in Procs :
              LET c == call[p]
                  rule == CurrentRule(c)
              IN  (c.pc = "setcd" /\ call'[p] # c) =>
                      cooldown' =
                          OtherRows(cooldown, rule.id, c.message.chatId)
                              \cup {[rule_id |-> rule.id,
                                     scope_key |-> c.message.chatId,
                                     expires_at |->
                                         now + rule.cooldown_seconds]}]_vars

\* Two calls for chat x fired the first rule in the same second, one under
\* the rule set with the cooldown of 2 and one under the rule set with the
\* cooldown of 1; the row holds the shorter expiry, so the later write
\* replaced an expiry that lay further ahead, while a row of another key is
\* in the table.
C25_Witness ==
    /\ now = 0
    /\ \E p, q \in Procs :
           /\ call[p].pc = "done" /\ call[q].pc = "done"
           /\ call[p].message.chatId = "x" /\ call[q].message.chatId = "x"
           /\ call[p].evaluatedRules # <<>> /\ call[q].evaluatedRules # <<>>
           /\ call[p].sortedRules[1].cooldown_seconds = 2
           /\ call[q].sortedRules[1].cooldown_seconds = 1
           /\ call[p].evaluatedRules[1].matched
           /\ call[q].evaluatedRules[1].matched
    /\ [rule_id |-> "r1", scope_key |-> "x", expires_at |-> 1] \in cooldown
    /\ \E e \in cooldown : e.rule_id # "r1"

\* The rule is reported by the call as skipped for cooldown.
SkippedIn(c, ruleId) ==
    \E k \in 1..Len(c.evaluatedRules) :
        /\ c.evaluatedRules[k].id = ruleId
        /\ "skippedCooldown" \in DOMAIN c.evaluatedRules[k]

\* C26: the lookup of a call skips its rule only for an unexpired row of
\* that rule id and that chat id: unexpired rows of the same rule for
\* another chat or of another rule for the same chat do not make the rule
\* skipped; and the purge before the lookup removes exactly the rows whose
\* expiry has passed, never an unexpired one.
C26_CooldownScope ==
    [][\A p \in Procs :
          LET c == call[p]
              d == call'[p]
          IN  (d # c) =>
                /\ c.pc = "select" =>
                       (SkippedIn(d, CurrentRule(c).id)
                            => \E e \in cooldown :
                                   /\ e.rule_id = CurrentRule(c).id
                                   /\ e.scope_key = c.message.chatId
                                   /\ e.expires_at > now)
                /\ c.pc = "delete" =>
                       /\ cooldown' \subseteq cooldown
                       /\ \A e \in cooldown \ cooldown' : e.expires_at < now
                       /\ \A e \in cooldown' : e.expires_at >= now]_vars

\* While a row of the first rule for chat x was unexpired, a call for chat x
\* that fired the first rule went on to fire the second rule, and a call for
\* chat y that began with that row in the table fired the first rule.
C26_Witness ==
    \E p, q \in Procs :
        LET c == call[p]
            d == call[q]
        IN  /\ c.pc = "done" /\ d.pc = "done"
            /\ c.message.chatId = "x" /\ d.message.chatId = "y"
            /\ Len(c.evaluatedRules) = 2
            /\ c.evaluatedRules[1].matched /\ c.evaluatedRules[2].matched
            /\ d.evaluatedRules # <<>>
            /\ d.evaluatedRules[1].matched
            /\ \E e \in d.cdAtStart :
                   /\ e.rule_id = d.evaluatedRules[1].id
                   /\ e.scope_key = "x"
                   /\ e \in cooldown
                   /\ e.expires_at > now

\* ------------------------------------------------------ concurrent saves
\* The rule-set operations of the REST layer, two requests at a time.
NextSave == AdminNext(Admins)

SpecSave == Init /\ [][NextSave]_vars

\* No saveRules or reloadRules call is between its store operation and its
\* assignment of the cache.
AllCompleted == \A a \in Admins : admin[a].pc = "idle"

\* C27: whenever every saveRules and reloadRules call has completed and the
\* cache has been loaded, the cache is the parsed rule set that the store
\* holds, whatever the interleaving of the calls.
C27_CacheIsStore ==
    (AllCompleted /\ rulesCache # NoCache)
        => rulesCache = JsonParse(ruleset.parsed_json)

\* C28: when the executor has returned for a matched rule it has produced
\* exactly one outcome per action of the rule's declared list, in the
\* declared order, and the RuleFire record written next has success true
\* exactly when every action of the declared list has an outcome with
\* success true.
C28_OutcomePerAction ==
    [][\A p \in Procs :
          LET c == call[p]
              rule == CurrentRule(c)
          IN  (c.pc = "logfire" /\ call'[p] # c) =>
                /\ Len(c.actionResults) = Len(rule.actions)
                /\ InDeclaredOrder(rule, c.actionResults)
                /\ fires' # fires =>
                       fires'[Len(fires')].success =
                           \A k \in 1..Len(rule.actions) :
                               /\ k <= Len(c.actionResults)
                               /\ c.actionResults[k].success]_vars

\* ------------------------------------------------------------ termination
\* The store or the external service answers the operation the call is
\* awaiting: it returns, or it fails.
Answered(p) ==
    \/ isOnCooldownDelete(p)
    \/ isOnCooldownSelect(p)
    \/ \E ok \in BOOLEAN : executeActions(p, ok)
    \/ logRuleFire(p)
    \/ setCooldown(p)
    \/ dbRejects(p)

\* The engine over a store whose operations can fail, where every awaited
\* operation is answered in the end.
SpecLive == Init /\ [][NextFaults]_vars /\ WF_vars(Answered("p1"))

Finished(c) == c.pc \in {"done", "threw"}

\* The evaluation entries are a duplicate-free prefix of the working order,
\* at most the last one has stoppedChain true, and every executed action
\* belongs to a rule with a matched entry.
WellFormedResult(c) ==
    /\ Len(c.evaluatedRules) <= Len(c.sortedRules)
    /\ \A k \in 1..Len(c.evaluatedRules) :
           c.evaluatedRules[k].id = c.sortedRules[k].id
    /\ \A j, k \in 1..Len(c.evaluatedRules) :
           c.evaluatedRules[j].id = c.evaluatedRules[k].id => j = k
    /\ \A k \in 1..Len(c.evaluatedRules) :
           ("stoppedChain" \in DOMAIN c.evaluatedRules[k]
                /\ c.evaluatedRules[k].stoppedChain)
               => k = Len(c.evaluatedRules)
    /\ \A n \in 1..Len(c.executedActions) :
           \E k \in 1..Len(c.evaluatedRules) :
               /\ c.evaluatedRules[k].id = c.executedActions[n].ruleId
               /\ c.evaluatedRules[k].matched

\* C29: a processMessage call whose awaited operations are all answered
\* returns or rejects; at every moment its evaluation entries are a
\* duplicate-free prefix of the working order (each rule evaluated at most
\* once), at most one entry has stoppedChain true and it is the last, and
\* every executed action belongs to a rule whose entry has matched:true.
C29_Terminates ==
    /\ [](\A p \in Procs : WellFormedResult(call[p]))
    /\ \A p \in Procs : InFlight(call[p]) ~> Finished(call[p])

\* A call has returned after it evaluated three rules of its working order,
\* one of them skipped for cooldown or not matching, and the last one with
\* stoppedChain true.
C29_Witness ==
    \E p \in Procs :
        LET c == call[p]
        IN  /\ c.pc = "done"
            /\ Len(c.evaluatedRules) >= 2
            /\ \E k \in 1..Len(c.evaluatedRules) : ~ c.evaluatedRules[k].matched
            /\ c.evaluatedRules[Len(c.evaluatedRules)].matched
            /\ c.evaluatedRules[Len(c.evaluatedRules)].stoppedChain
            /\ c.executedActions # <<>>

\* --------------------------------------------------------------- webhook
\* event.event === 'messages.upsert' || event.event === 'MESSAGES_UPSERT'
IsUpsert(event) == event.event \in {"messages.upsert", "MESSAGES_UPSERT"}

\* The text of the message: conversation, else the extended text, else the
\* caption of an image, else the caption of a video, else ''.
MessageText(message) ==
    IF Has(message, "conversation") /\ message.conversation # <<>>
    THEN message.conversation
    ELSE IF Has(message, "extendedTextMessage")
            /\ Has(message.extendedTextMessage, "text")
            /\ message.extendedTextMessage.text # <<>>
    THEN message.extendedTextMessage.text
    ELSE IF Has(message, "imageMessage")
            /\ Has(message.imageMessage, "caption")
            /\ message.imageMessage.caption # <<>>
    THEN message.imageMessage.caption
    ELSE IF Has(message, "videoMessage")
            /\ Has(message.videoMessage, "caption")
            /\ message.videoMessage.caption # <<>>
    THEN message.videoMessage.caption
    ELSE <<>>

\* The early returns of handleMessageUpsert ahead of the duplicate check:
\* no key or no message, a message from the account itself, no text.
NotForEngine(data) ==
    \/ ~ Has(data, "key")
    \/ ~ Has(data, "message")
    \/ data.key.fromMe
    \/ MessageText(data.message) = <<>>

\* Mutation: the duplicate check finds nothing.
IsDuplicate_Never(rows, messageId) == FALSE

\* SELECT id FROM wa_message WHERE provider_message_id = ?
IsDuplicate(rows, messageId) ==
    \E n \in 1..Len(rows) : rows[n].provider_message_id = messageId

\* The jids of group chats end with @g.us.
GroupJids == {"g@g.us"}

\* The message handed to the rule engine.
EngineMessage(data) ==
    [chatId |-> data.key.remoteJid,
     chatType |-> IF data.key.remoteJid \in GroupJids
                  THEN "group" ELSE "direct",
     senderId |-> IF Has(data.key, "participant") THEN data.key.participant
                  ELSE data.key.remoteJid,
     text |-> MessageText(data.message),
     messageId |-> data.key.id]

\* res.status(200).json(...), with the error message in the catch block.
Responded(event, failed) ==
    IF failed
    THEN [pc |-> "answered", event |-> event, status |-> 200,
          body |-> [received |-> TRUE, error |-> TRUE]]
    ELSE [pc |-> "answered", event |-> event, status |-> 200,
          body |-> [received |-> TRUE]]

\* POST /webhook/evolution up to the await of processMessage: the handler
\* answers at once for an event that is not a message, for a message it
\* skips and when the INSERT fails (insertOk false); otherwise the message
\* row is inserted and processMessage is called with its row id.
webhookPost(p, event, insertOk) ==
    /\ webhook[p].pc # "processing"
    /\ call[p].pc \in {"idle", "done", "threw"}
    /\ IF \/ ~ IsUpsert(event)
          \/ NotForEngine(event.data)
          \/ IsDuplicate(waMessage, event.data.key.id)
       THEN /\ webhook' = [webhook EXCEPT ![p] = Responded(event, FALSE)]
            /\ UNCHANGED <<waMessage, call, ncalls>>
       ELSE IF ~ insertOk
       THEN /\ webhook' = [webhook EXCEPT ![p] = Responded(event, TRUE)]
            /\ UNCHANGED <<waMessage, call, ncalls>>
       ELSE /\ ncalls < MaxCalls
            /\ waMessage' =
                   Append(waMessage,
                          [id |-> Len(waMessage) + 1,
                           provider_message_id |-> event.data.key.id,
                           chat_id |-> event.data.key.remoteJid,
                           processed |-> FALSE])
            /\ call' = [call EXCEPT ![p] =
                            StartedCall(EngineMessage(event.data))]
            /\ ncalls' = ncalls + 1
            /\ webhook' = [webhook EXCEPT ![p] =
                               [pc |-> "processing", event |-> event,
                                dbMessageId |-> Len(waMessage) + 1]]
    /\ UNCHANGED <<rulesCache, ruleset, cooldown, fires, now, admin, haCalls,
                   sendCalls, testResult, nadmin, serviceResult>>

\* The handler after the await: processMessage returned and the row is
\* marked as processed, or it rejected and the catch block answers.
webhookReturn(p) ==
    /\ webhook[p].pc = "processing"
    /\ call[p].pc \in {"done", "threw"}
    /\ IF call[p].pc = "done"
       THEN /\ waMessage' = [waMessage EXCEPT
                               ![webhook[p].dbMessageId].processed = TRUE]
            /\ webhook' = [webhook EXCEPT ![p] =
                   Responded(webhook[p].event, FALSE)
                       @@ [dbMessageId |-> webhook[p].dbMessageId]]
       ELSE /\ UNCHANGED waMessage
            /\ webhook' = [webhook EXCEPT ![p] =
                   Responded(webhook[p].event, TRUE)
                       @@ [dbMessageId |-> webhook[p].dbMessageId]]
    /\ UNCHANGED <<rulesCache, ruleset, cooldown, fires, now, call, admin,
                   haCalls, sendCalls, testResult, ncalls, nadmin,
                   serviceResult>>

\* A message event as the provider delivers it.
Upsert(id, fromMe, text) ==
    [event |-> "messages.upsert",
     data |-> [key |-> [id |-> id, remoteJid |-> "x", fromMe |-> fromMe,
                        participant |-> Sender],
               message |-> [conversation |-> text]]]

\* The deliveries: an account event, a payload without a message, a message
\* sent by the account itself, a message without text, and two messages,
\* each of which can be delivered again.
WebhookEvents ==
    { [event |-> "connection.update", data |-> <<>>],
      [event |-> "MESSAGES_UPSERT",
       data |-> [key |-> [id |-> "m1", remoteJid |-> "x", fromMe |-> FALSE]]],
      Upsert("m1", TRUE, <<"a">>),
      Upsert("m1", FALSE, <<>>),
      Upsert("m1", FALSE, <<"a">>),
      Upsert("m2", FALSE, <<"a">>) }

WebhookTexts == { Text("stop", RulesStop) }

\* The webhook route in front of the engine, two deliveries at a time, over
\* a store whose operations can fail.
NextWebhook ==
    \/ \E text \in WebhookTexts : saveRulesUpdate("a1", text)
    \/ saveRulesAssign("a1")
    \/ \E p \in Procs, event \in WebhookEvents, insertOk \in BOOLEAN :
           webhookPost(p, event, insertOk)
    \/ \E p \in Procs : isOnCooldownDelete(p)
    \/ \E p \in Procs : isOnCooldownSelect(p)
    \/ \E p \in Procs, ok \in BOOLEAN : executeActions(p, ok)
    \/ \E p \in Procs : logRuleFire(p)
    \/ \E p \in Procs : dbRejects(p)
    \/ \E p \in Procs : webhookReturn(p)

SpecWebhook == Init /\ [][NextWebhook]_vars

\* The step hands a message to the rule engine from the slot p.
EngineCalled(p) == ncalls' # ncalls /\ call'[p] # call[p]

\* C30: the handler hands a message to the rule engine only when it is not
\* marked fromMe and no row of wa_message holds its provider message id, and
\* it inserts the row in the same step, so no two engine calls share a
\* provider message id and no rule fires twice for one stored message; every
\* answer has status 200, also after processMessage rejected; and a row is
\* marked processed only by the handler whose processMessage call for that
\* row has returned, never after a rejection.
C30_WebhookOnce ==
    [][/\ \A p \in Procs :
              /\ EngineCalled(p) =>
                   /\ webhook'[p].pc = "processing"
                   /\ ~ webhook'[p].event.data.key.fromMe
                   /\ \A n \in 1..Len(waMessage) :
                          waMessage[n].provider_message_id
                              # webhook'[p].event.data.key.id
                   /\ Len(waMessage') = Len(waMessage) + 1
                   /\ waMessage'[Len(waMessage')].provider_message_id
                          = webhook'[p].event.data.key.id
                   /\ call'[p].message.messageId
                          = webhook'[p].event.data.key.id
                   /\ call'[p].callId = webhook'[p].dbMessageId
              /\ webhook'[p].pc = "answered" => webhook'[p].status = 200
              /\ (webhook[p].pc = "processing" /\ call[p].pc = "threw"
                      /\ webhook'[p] # webhook[p]) =>
                   /\ webhook'[p].pc = "answered"
                   /\ webhook'[p].status = 200
                   /\ waMessage' = waMessage
       /\ ncalls' = Len(waMessage')
       /\ \A m, n \in 1..Len(waMessage') :
              waMessage'[m].provider_message_id
                  = waMessage'[n].provider_message_id => m = n
       /\ \A i, j \in 1..Len(fires') :
              (fires'[i].message_id = fires'[j].message_id
                   /\ fires'[i].rule_id = fires'[j].rule_id) => i = j
       /\ \A n \in 1..Len(waMessage') :
              (waMessage'[n].processed
                   /\ ~ (n <= Len(waMessage) /\ waMessage[n].processed)) =>
                  \E p \in Procs :
                      /\ webhook[p].pc = "processing"
                      /\ webhook[p].dbMessageId = n
                      /\ call[p].pc = "done"
                      /\ call[p].callId = n]_vars

\* A message was processed and marked, its redelivery was answered without
\* an engine call, and another message whose processMessage call rejected
\* was answered with 200 and left unmarked.
C30_Witness ==
    /\ Len(waMessage) = 2
    /\ waMessage[1].processed
    /\ ~ waMessage[2].processed
    /\ fires # <<>>
    /\ \E p, q \in Procs :
           /\ webhook[p].pc = "answered"
           /\ IsUpsert(webhook[p].event)
           /\ ~ NotForEngine(webhook[p].event.data)
           /\ webhook[p].event.data.key.id = waMessage[1].provider_message_id
           /\ ~ Has(webhook[p], "dbMessageId")
           /\ ~ Has(webhook[p].body, "error")
           /\ webhook[q].pc = "answered"
           /\ Has(webhook[q], "dbMessageId")
           /\ webhook[q].dbMessageId = 2
           /\ Has(webhook[q].body, "error")
           /\ call[q].pc = "threw"

====
